---- MODULE Spec2Model ----
(***************************************************************************)
(* PhotoOrganizer (src/lib/photo_organizer.py): the clustering pass of     *)
(* group_photos_into_events, the parallel scan of scan_photos /            *)
(* process_single_file, the cache of load_cache / save_cache, the          *)
(* enrichment pass of post_process_geocoding / get_location_name, the      *)
(* timestamp chain of get_best_datetime with the write-back of             *)
(* add_exif_to_file, the file name patterns of get_datetime_from_filename  *)
(* and the move planner of organize_photos / generate_bash_script /        *)
(* generate_powershell_script.                                             *)
(*                                                                         *)
(* Encoding of Python values:                                              *)
(*   None (Optional tuple / Optional datetime)  the empty sequence <<>>    *)
(*   None (Optional str)                        the string "None"          *)
(*   datetime                                   an integer count of ticks, *)
(*                                              TicksPerDay ticks a day    *)
(*   timedelta.days                             ticks \div TicksPerDay     *)
(*   GPS coordinates                            <<lat, lon>> in 1/100 deg  *)
(*                                              (clustering), in 1/10000   *)
(*                                              deg (cache, enrichment)    *)
(*   dict (insertion ordered)                   a sequence of [k, v]       *)
(***************************************************************************)
EXTENDS Integers, Sequences, FiniteSets, TLC

(* ------------------------------ bounds -------------------------------- *)
MaxPhotos == 3
TicksPerDay == 2
MaxDay == 4
MaxMinEventPhotos == 2
MaxFiles == 3
MaxWorkers == 2
DaysPerYear == 2

(* ------------------------- program constants -------------------------- *)
event_max_days == 3
geo_radius_km == 10
EarthRadiusKm == 6371

None == <<>>
NoneStr == "None"

VARIABLES
    (* PhotoOrganizer fields *)
    photos,                 \* self.photos
    min_event_photos,       \* self.min_event_photos
    use_geocoding,          \* self.use_geocoding
    (* group_photos_into_events locals *)
    cpc,                    \* position in group_photos_into_events
    sorted_photos,
    idx,                    \* index of the next element of sorted_photos
    events,
    current_event_photos,
    current_event_start,
    single_files,
    (* scan_photos / process_single_file *)
    tree,                   \* the files under source_dir, in rglob order
    max_workers,            \* self.max_workers
    spc,                    \* position in scan_photos
    all_files,
    tpc,                    \* position of each submitted task
    thash,                  \* file_hash of each task
    result,                 \* what each future returns
    collected,              \* the futures as_completed has yielded
    hash_cache,             \* self.hash_cache
    hash_cache_lock,        \* the task holding self.hash_cache_lock, or 0
    duplicates,             \* self.duplicates
    (* organize_photos / generate_shell_script *)
    run,                    \* which call of organize_photos is under way
    powershell,             \* self.powershell
    ppc,                    \* position in organize_photos
    gi,                     \* index of the group of events.items()
    mi,                     \* index of the member of that group
    moved_count,
    error_count,
    preview_moves,          \* the (source, destination) pairs a dry run lists
    exec_moves,             \* the (source, destination) pairs given to shutil.move
    move_commands,          \* self.move_commands
    target_files,           \* the files that exist under target_dir
    (* load_cache / save_cache / post_process_geocoding / get_location_name *)
    cache_file,             \* self.cache_file: the path, or None
    disk_cache,             \* the content of the file at that path
    loaded,                 \* what load_cache returned
    saving,                 \* save_cache has the file open for writing
    writes,                 \* the number of completed json.dump calls
    location_cache,         \* self.location_cache
    coords_to_process,
    ci,                     \* index of the next element of coords_to_process
    now,                    \* the wall clock, in tenths of a second
    lookups,                \* the requests.get calls made so far
    (* get_best_datetime *)
    filepath,               \* the file get_best_datetime is called on
    best_datetime,          \* what it returns
    add_exif,               \* self.add_exif
    exif_on_disk,           \* the EXIF tags the file holds
    (* get_dominant_location *)
    group_photos,           \* the argument photos
    dominant_location       \* what it returns

clusterVars == <<cpc, sorted_photos, idx, events, current_event_photos,
                 current_event_start, single_files>>
configVars == <<min_event_photos, use_geocoding>>
scanVars == <<tree, max_workers, spc, all_files, tpc, thash, result, collected,
              hash_cache, hash_cache_lock, duplicates>>
planVars == <<run, powershell, ppc, gi, mi, moved_count, error_count,
              preview_moves, exec_moves, move_commands, target_files>>
runVars == <<cache_file, disk_cache, loaded, saving, writes, location_cache,
             coords_to_process, ci, now, lookups>>
pureVars == <<filepath, best_datetime, add_exif, exif_on_disk, group_photos,
              dominant_location>>
vars == <<photos, configVars, clusterVars, scanVars, planVars, runVars, pureVars>>

(* ------------------------------ helpers ------------------------------- *)
Abs(x) == IF x < 0 THEN 0 - x ELSE x

SeqToSet(s) == {s[i] : i \in 1..Len(s)}

\* datetime.date(): the calendar day a timestamp lies on
DateOf(t) == t \div TicksPerDay

\* timedelta.days of (t2 - t1)
TimedeltaDays(t2, t1) == (t2 - t1) \div TicksPerDay

\* calculate_distance, in metres, for two points of one meridian: there
\* dlon = 0, so a = sin^2(dlat/2) and c = |dlat|, the distance is R * |dlat|
\* (|dlat| in radians = centidegrees * pi / 18000, pi taken as 3.142).
calculate_distance(coord1, coord2) ==
    (EarthRadiusKm * Abs(coord2[1] - coord1[1]) * 3142) \div 18000

(* --------------------------- ordered dict ----------------------------- *)
DictHas(d, key) == \E i \in 1..Len(d) : d[i].k = key

DictGet(d, key) == d[CHOOSE i \in 1..Len(d) : d[i].k = key].v

\* d[key] = value: an existing key keeps its position and loses its old value
DictSet(d, key, value) ==
    IF DictHas(d, key)
    THEN [i \in 1..Len(d) |->
             IF d[i].k = key THEN [k |-> key, v |-> value] ELSE d[i]]
    ELSE Append(d, [k |-> key, v |-> value])

(* ----------------------------- clustering ----------------------------- *)
\* Python truthiness of an Optional[str]
Truthy(s) == s # NoneStr /\ s # ""

\* list.sort / sorted(key=datetime): stable insertion
RECURSIVE InsertByDatetime(_, _)
InsertByDatetime(s, p) ==
    IF s = <<>> THEN <<p>>
    ELSE IF Head(s).datetime <= p.datetime
         THEN <<Head(s)>> \o InsertByDatetime(Tail(s), p)
         ELSE <<p>> \o s

RECURSIVE SortByDatetime(_)
SortByDatetime(s) ==
    IF s = <<>> THEN <<>>
    ELSE InsertByDatetime(SortByDatetime(SubSeq(s, 1, Len(s) - 1)), s[Len(s)])

MinDatetime(ps) ==
    CHOOSE t \in {ps[i].datetime : i \in 1..Len(ps)} :
        \A i \in 1..Len(ps) : t <= ps[i].datetime

MaxDatetime(ps) ==
    CHOOSE t \in {ps[i].datetime : i \in 1..Len(ps)} :
        \A i \in 1..Len(ps) : t >= ps[i].datetime

\* faulty variant: '>' for '>='
AcceptCount_Gt(count, n) == count > 1 /\ 10 * count > 3 * n

\* count >= max(1, len(photos) * 0.3)
AcceptCount(count, n) == count >= 1 /\ 10 * count >= 3 * n

\* Counter(locations).most_common(1): the highest count, the first inserted
\* key among equals; accepted when count >= max(1, len(photos) * 0.3)
get_dominant_location(ps) ==
    IF ~use_geocoding THEN NoneStr
    ELSE
        LET locations == SelectSeq([i \in 1..Len(ps) |-> ps[i].location_name], Truthy)
            Count(x) == Cardinality({i \in 1..Len(locations) : locations[i] = x})
        IN  IF locations = <<>> THEN NoneStr
            ELSE
                LET first == CHOOSE i \in 1..Len(locations) :
                                 /\ \A j \in 1..Len(locations) :
                                        Count(locations[j]) <= Count(locations[i])
                                 /\ \A j \in 1..(i - 1) :
                                        Count(locations[j]) < Count(locations[i])
                    count == Count(locations[first])
                IN  IF AcceptCount(count, Len(ps))
                    THEN locations[first]
                    ELSE NoneStr

\* The event name: 'YYYY/MM-DD[-place]' carries the start date alone,
\* 'YYYY/Event_<start>_bis_<end>[-place]' the start and the end date.
create_event_name(ps) ==
    LET start_date == MinDatetime(ps)
        end_date == MaxDatetime(ps)
        location_name == get_dominant_location(ps)
    IN  IF TimedeltaDays(end_date, start_date) = 0
        THEN [kind |-> "day", start |-> DateOf(start_date),
              end |-> DateOf(start_date), place |-> location_name]
        ELSE [kind |-> "event", start |-> DateOf(start_date),
              end |-> DateOf(end_date), place |-> location_name]

\* the key "." of the loose files
LooseKey == [kind |-> ".", start |-> 0, end |-> 0, place |-> NoneStr]

\* faulty variant: the comparison made strict
TimeCriterion_Strict(photo, start) ==
    TimedeltaDays(photo.datetime, start) < event_max_days

\* faulty variant: calendar dates compared instead of timedelta.days
TimeCriterion_Calendar(photo, start) ==
    DateOf(photo.datetime) - DateOf(start) <= event_max_days

\* time_diff.days <= self.event_max_days
TimeCriterion(photo, start) ==
    TimedeltaDays(photo.datetime, start) <= event_max_days

\* distance <= self.geo_radius_km
WithinRadius(c1, c2) == calculate_distance(c1, c2) <= geo_radius_km * 1000

\* the for loop over current_event_photos: TRUE when it leaves by break
RECURSIVE GpsLoopBreaks(_, _)
GpsLoopBreaks(photo, members) ==
    IF members = <<>> THEN FALSE
    ELSE IF Head(members).gps_coords # None
            /\ WithinRadius(photo.gps_coords, Head(members).gps_coords)
         THEN TRUE
         ELSE GpsLoopBreaks(photo, Tail(members))

\* faulty variant: the else branch of the for loop dropped (no veto)
GeoCriterion_NoVeto(photo, members) == TRUE

\* faulty variant: the else branch without its any(...) test (veto without GPS peers)
GeoCriterion_AlwaysVeto(photo, members) ==
    IF photo.gps_coords # None THEN GpsLoopBreaks(photo, members) ELSE TRUE

\* the for/else: the else branch runs when the loop did not break
GeoCriterion(photo, members) ==
    IF photo.gps_coords # None
    THEN IF GpsLoopBreaks(photo, members)
         THEN TRUE
         ELSE IF \E i \in 1..Len(members) : members[i].gps_coords # None
              THEN FALSE
              ELSE TRUE
    ELSE TRUE

\* faulty variant: the time measured from the last member, not from the start
BelongsToEvent_Chained(photo, members, start) ==
    IF TimeCriterion(photo, members[Len(members)].datetime)
    THEN GeoCriterion(photo, members)
    ELSE FALSE

BelongsToEvent(photo, members, start) ==
    IF TimeCriterion(photo, start[1])
    THEN GeoCriterion(photo, members)
    ELSE FALSE

\* faulty variant: '>' for '>='
CloseEvent_Gt(evts, singles, members) ==
    IF Len(members) > min_event_photos
    THEN [events |-> DictSet(evts, create_event_name(members), members),
          single_files |-> singles]
    ELSE [events |-> evts, single_files |-> singles \o members]

\* closing a cluster: a named event, or its members join single_files
CloseEvent(evts, singles, members) ==
    IF Len(members) >= min_event_photos
    THEN [events |-> DictSet(evts, create_event_name(members), members),
          single_files |-> singles]
    ELSE [events |-> evts, single_files |-> singles \o members]

\* one iteration of the loop over sorted_photos
LoopBody(st, photo) ==
    IF st.current_event_photos = <<>>
    THEN [st EXCEPT !.current_event_photos = <<photo>>,
                    !.current_event_start = <<photo.datetime>>]
    ELSE IF BelongsToEvent(photo, st.current_event_photos, st.current_event_start)
         THEN [st EXCEPT !.current_event_photos = Append(@, photo)]
         ELSE LET c == CloseEvent(st.events, st.single_files,
                                  st.current_event_photos)
              IN  [events |-> c.events,
                   single_files |-> c.single_files,
                   current_event_photos |-> <<photo>>,
                   current_event_start |-> <<photo.datetime>>]

\* after the loop: the last cluster, then the "." bucket
AfterLoop(st) ==
    LET c == IF st.current_event_photos # <<>>
             THEN CloseEvent(st.events, st.single_files, st.current_event_photos)
             ELSE [events |-> st.events, single_files |-> st.single_files]
    IN  [st EXCEPT !.single_files = c.single_files,
                   !.events = IF c.single_files # <<>>
                              THEN DictSet(c.events, LooseKey, c.single_files)
                              ELSE c.events]

LoopState == [events |-> events, single_files |-> single_files,
              current_event_photos |-> current_event_photos,
              current_event_start |-> current_event_start]

EmptyLoopState == [events |-> <<>>, single_files |-> <<>>,
                   current_event_photos |-> <<>>, current_event_start |-> None]

SetLoopState(st) ==
    /\ events' = st.events
    /\ single_files' = st.single_files
    /\ current_event_photos' = st.current_event_photos
    /\ current_event_start' = st.current_event_start

\* group_photos_into_events, entry: the empty check, the sort, the locals
GroupBegin ==
    /\ cpc = "call"
    /\ IF photos = <<>>
       THEN /\ cpc' = "done"
            /\ sorted_photos' = <<>>
       ELSE /\ cpc' = "loop"
            /\ sorted_photos' = SortByDatetime(photos)
    /\ idx' = 1
    /\ SetLoopState(EmptyLoopState)
    /\ UNCHANGED <<photos, configVars, runVars, pureVars, scanVars, planVars>>

\* group_photos_into_events, one iteration of 'for photo in sorted_photos'
GroupVisit ==
    /\ cpc = "loop"
    /\ idx <= Len(sorted_photos)
    /\ SetLoopState(LoopBody(LoopState, sorted_photos[idx]))
    /\ idx' = idx + 1
    /\ UNCHANGED <<cpc, sorted_photos, photos, configVars, runVars, pureVars, scanVars, planVars>>

\* group_photos_into_events, after the loop, up to the return
GroupFinish ==
    /\ cpc = "loop"
    /\ idx > Len(sorted_photos)
    /\ SetLoopState(AfterLoop(LoopState))
    /\ cpc' = "done"
    /\ UNCHANGED <<idx, sorted_photos, photos, configVars, runVars, pureVars, scanVars, planVars>>

\* the locals of group_photos_into_events before it is called
ClusterIdle ==
    /\ cpc = "call"
    /\ sorted_photos = <<>>
    /\ idx = 1
    /\ events = <<>>
    /\ current_event_photos = <<>>
    /\ current_event_start = None
    /\ single_files = <<>>

\* no call of organize_photos has been made
PlanIdle ==
    /\ run = 1
    /\ ppc = "call"
    /\ gi = 1
    /\ mi = 1
    /\ moved_count = 0
    /\ error_count = 0
    /\ preview_moves = <<>>
    /\ exec_moves = <<>>
    /\ move_commands = <<>>

\* the cache file: no file, a file cut short (no JSON document), or a JSON
\* document; 'malformed' names the part of a document that has not the shape
\* load_cache expects
NoFile == [kind |-> "absent", malformed |-> "nothing", photos |-> <<>>,
           duplicates |-> {}, location_cache |-> <<>>]

Truncated == [kind |-> "truncated", malformed |-> "nothing", photos |-> <<>>,
              duplicates |-> {}, location_cache |-> <<>>]

\* PhotoOrganizer.__init__: no cache read or written, no lookup made
RunIdle ==
    /\ disk_cache = NoFile
    /\ loaded = FALSE
    /\ saving = FALSE
    /\ writes = 0
    /\ location_cache = <<>>
    /\ coords_to_process = <<>>
    /\ ci = 1
    /\ now = 0
    /\ lookups = <<>>

\* get_best_datetime and get_dominant_location have not been called
PureIdle ==
    /\ filepath = <<>>
    /\ best_datetime = None
    /\ add_exif = FALSE
    /\ exif_on_disk = <<>>
    /\ group_photos = <<>>
    /\ dominant_location = "uncalled"

(* -------------------------------- scan -------------------------------- *)
supported_extensions == {".jpg", ".mp4"}

video_extensions == {".mp4"}

\* get_file_hash: the digest of the content, "" when the file cannot be read
get_file_hash(f) == IF f.readable THEN f.content ELSE ""

\* the PhotoInfo process_single_file returns for a file
PhotoInfoOf(f, file_hash) ==
    [filepath |-> f.path, datetime |-> f.datetime, gps_coords |-> f.gps,
     location_name |-> NoneStr, file_hash |-> file_hash,
     file_size |-> f.st_size, is_video |-> f.suffix \in video_extensions]

\* the future's result None
NoResult == [filepath |-> <<>>, datetime |-> 0, gps_coords |-> None,
             location_name |-> NoneStr, file_hash |-> NoneStr,
             file_size |-> 0, is_video |-> FALSE]

Tasks == 1..Len(all_files)

Running == {i \in Tasks : tpc[i] \in {"wait_lock", "check", "insert", "extract"}}

Returned == {i \in Tasks : tpc[i] \in {"ret_dup", "ret_ok", "ret_err"}}

\* faulty variant: the critical section entered without the lock
LockFree_NoLock == TRUE

\* 'with self.hash_cache_lock' can be entered
LockFree == hash_cache_lock = 0

\* PhotoOrganizer.__init__: the state of a fresh organizer
ScanIdle ==
    /\ spc = "call"
    /\ all_files = <<>>
    /\ tpc = <<>>
    /\ thash = <<>>
    /\ result = <<>>
    /\ collected = {}
    /\ hash_cache = <<>>
    /\ hash_cache_lock = 0
    /\ duplicates = {}

\* scan_photos up to the submission of the tasks (no cache is loaded): the
\* qualifying files of the walk, one future each
ScanBegin ==
    /\ spc = "call"
    /\ all_files' = SelectSeq(tree, LAMBDA f : f.suffix \in supported_extensions)
    /\ tpc' = [i \in 1..Len(all_files') |-> "queued"]
    /\ thash' = [i \in 1..Len(all_files') |-> ""]
    /\ result' = [i \in 1..Len(all_files') |-> NoResult]
    /\ spc' = "pool"
    /\ UNCHANGED <<tree, max_workers, collected, hash_cache, hash_cache_lock,
                   duplicates, photos, configVars, runVars, pureVars, clusterVars, planVars>>

\* a pool thread takes the next task of the work queue and runs
\* process_single_file up to the lock: get_file_hash
TaskStart(i) ==
    /\ spc = "pool"
    /\ tpc[i] = "queued"
    /\ \A j \in 1..(i - 1) : tpc[j] # "queued"
    /\ Cardinality(Running) < max_workers
    /\ thash' = [thash EXCEPT ![i] = get_file_hash(all_files[i])]
    /\ tpc' = [tpc EXCEPT ![i] = "wait_lock"]
    /\ UNCHANGED <<tree, max_workers, spc, all_files, result, collected,
                   hash_cache, hash_cache_lock, duplicates, photos,
                   configVars, runVars, pureVars, clusterVars, planVars>>

\* process_single_file: with self.hash_cache_lock
TaskAcquire(i) ==
    /\ tpc[i] = "wait_lock"
    /\ LockFree
    /\ hash_cache_lock' = i
    /\ tpc' = [tpc EXCEPT ![i] = "check"]
    /\ UNCHANGED <<tree, max_workers, spc, all_files, thash, result, collected,
                   hash_cache, duplicates, photos, configVars, runVars, pureVars, clusterVars, planVars>>

\* faulty variant: the membership test never finds the hash
InIndex_Never(i) == FALSE

\* file_hash in self.hash_cache
InIndex(i) == DictHas(hash_cache, thash[i])

\* process_single_file: if file_hash in self.hash_cache: return None
TaskCheck(i) ==
    /\ tpc[i] = "check"
    /\ IF InIndex(i)
       THEN /\ tpc' = [tpc EXCEPT ![i] = "ret_dup"]
            /\ hash_cache_lock' = 0
       ELSE /\ tpc' = [tpc EXCEPT ![i] = "insert"]
            /\ UNCHANGED hash_cache_lock
    /\ UNCHANGED <<tree, max_workers, spc, all_files, thash, result, collected,
                   hash_cache, duplicates, photos, configVars, runVars, pureVars, clusterVars, planVars>>

\* process_single_file: self.hash_cache[file_hash] = str(filepath), and the
\* end of the with block
TaskInsert(i) ==
    /\ tpc[i] = "insert"
    /\ hash_cache' = DictSet(hash_cache, thash[i], all_files[i].path)
    /\ hash_cache_lock' = 0
    /\ tpc' = [tpc EXCEPT ![i] = "extract"]
    /\ UNCHANGED <<tree, max_workers, spc, all_files, thash, result, collected,
                   duplicates, photos, configVars, runVars, pureVars, clusterVars, planVars>>

\* process_single_file after the lock: get_best_datetime, get_gps_coords and
\* filepath.stat(); an exception (stat fails) is caught and None returned
TaskExtract(i) ==
    /\ tpc[i] = "extract"
    /\ IF all_files[i].stat_ok
       THEN /\ result' = [result EXCEPT ![i] = PhotoInfoOf(all_files[i], thash[i])]
            /\ tpc' = [tpc EXCEPT ![i] = "ret_ok"]
       ELSE /\ tpc' = [tpc EXCEPT ![i] = "ret_err"]
            /\ UNCHANGED result
    /\ UNCHANGED <<tree, max_workers, spc, all_files, thash, collected,
                   hash_cache, hash_cache_lock, duplicates, photos,
                   configVars, runVars, pureVars, clusterVars, planVars>>

\* scan_photos: one iteration of 'for future in as_completed(...)'
Collect(i) ==
    /\ spc = "pool"
    /\ i \in Returned \ collected
    /\ collected' = collected \cup {i}
    /\ IF result[i] = NoResult
       THEN /\ duplicates' = duplicates \cup {all_files[i].path}
            /\ UNCHANGED photos
       ELSE /\ photos' = Append(photos, result[i])
            /\ UNCHANGED duplicates
    /\ UNCHANGED <<tree, max_workers, spc, all_files, tpc, thash, result,
                   hash_cache, hash_cache_lock, configVars, runVars, pureVars, clusterVars, planVars>>

\* faulty variant: the with block of the executor left without waiting
PoolDrained_NoWait == TRUE

\* as_completed has yielded every future, and ThreadPoolExecutor.__exit__
\* (shutdown(wait=True)) has returned
PoolDrained == collected = Tasks

\* scan_photos: as_completed is exhausted and the executor shut down
ScanDrained ==
    /\ spc = "pool"
    /\ PoolDrained
    /\ spc' = "scanned"
    /\ UNCHANGED <<tree, max_workers, all_files, tpc, thash, result, collected,
                   hash_cache, hash_cache_lock, duplicates, photos,
                   configVars, runVars, pureVars, clusterVars, planVars>>

Contents == {"h1", "h2"}

\* a directory entry: a media file, or a file of another type
MediaFiles(i) ==
    [path : {<<"src", ToString(i)>>}, suffix : {".jpg"}, content : Contents,
     readable : BOOLEAN, stat_ok : BOOLEAN, datetime : {0}, gps : {None},
     st_size : {2048}]

OtherFile(i) ==
    [path |-> <<"src", ToString(i)>>, suffix |-> ".txt", content |-> "h1",
     readable |-> TRUE, stat_ok |-> TRUE, datetime |-> 0, gps |-> None,
     st_size |-> 2048]

Trees(n) ==
    {t \in [1..n -> UNION {MediaFiles(i) \cup {OtherFile(i)} : i \in 1..n}] :
        \A i \in 1..n : t[i].path = <<"src", ToString(i)>>}

InitScan ==
    /\ min_event_photos = 1
    /\ use_geocoding = FALSE
    /\ photos = <<>>
    /\ max_workers \in 1..MaxWorkers
    /\ \E n \in 0..MaxFiles : tree \in Trees(n)
    /\ ScanIdle
    /\ ClusterIdle
    /\ PlanIdle
    /\ powershell = FALSE
    /\ target_files = {}
    /\ cache_file = NoneStr
    /\ RunIdle
    /\ PureIdle

NextScan ==
    \/ ScanBegin
    \/ \E i \in Tasks : TaskStart(i)
    \/ \E i \in Tasks : TaskAcquire(i)
    \/ \E i \in Tasks : TaskCheck(i)
    \/ \E i \in Tasks : TaskInsert(i)
    \/ \E i \in Tasks : TaskExtract(i)
    \/ \E i \in Tasks : Collect(i)
    \/ ScanDrained

SpecScan == InitScan /\ [][NextScan]_vars

(* ----------------------- cache and enrichment ------------------------- *)
\* In this part a coordinate is held in 1/10000 degree, so that rounding to
\* three decimals is rounding to a multiple of 10.

\* time.sleep(1.1) of get_location_name, in tenths of a second
RateLimitSleep == 11

\* the delay the service asks for between two requests (1 request/second)
MinDelay == 10

\* how long requests.get takes before it returns or raises
RequestTimes == {0, 2}

\* round(x, 3): the nearest multiple of 10, a tie to the even one
Round3(x) ==
    LET r == x % 10
    IN  IF r < 5 THEN x - r
        ELSE IF r > 5 THEN x - r + 10
        ELSE IF ((x - r) \div 10) % 2 = 0 THEN x - r ELSE x - r + 10

\* (round(coords[0], 3), round(coords[1], 3))
RoundedCoords(coords) == <<Round3(coords[1]), Round3(coords[2])>>

\* f"{coords[0]:.3f},{coords[1]:.3f}": three decimals of each number
FormatKey(coords) == <<Round3(coords[1]), Round3(coords[2])>>

\* coord_str.split(',') and float(): the two numbers of the key
ParseKey(coord_str) == <<coord_str[1], coord_str[2]>>

\* datetime.isoformat and datetime.fromisoformat
IsoFormat(t) == [iso |-> t]

FromIsoFormat(str) == str.iso

\* save_cache: photo_data of a record
PhotoData(photo) ==
    [filepath |-> photo.filepath, datetime |-> IsoFormat(photo.datetime),
     gps_coords |-> photo.gps_coords, location_name |-> photo.location_name,
     file_hash |-> photo.file_hash, file_size |-> photo.file_size,
     is_video |-> photo.is_video, valid |-> TRUE]

\* load_cache: PhotoInfo(...) of an entry of the document
PhotoFromData(photo_data) ==
    [filepath |-> photo_data.filepath,
     datetime |-> FromIsoFormat(photo_data.datetime),
     gps_coords |-> photo_data.gps_coords,
     location_name |-> photo_data.location_name,
     file_hash |-> photo_data.file_hash,
     file_size |-> photo_data.file_size,
     is_video |-> photo_data.is_video]

\* save_cache: cache_data['location_cache'], a JSON object keyed by string
RECURSIVE SerializeLocations(_, _)
SerializeLocations(cache, acc) ==
    IF cache = <<>> THEN acc
    ELSE SerializeLocations(Tail(cache),
                            DictSet(acc, FormatKey(Head(cache).k), Head(cache).v))

\* save_cache: cache_data
CacheData ==
    [kind |-> "json", malformed |-> "nothing",
     photos |-> [i \in 1..Len(photos) |-> PhotoData(photos[i])],
     duplicates |-> duplicates,
     location_cache |-> SerializeLocations(location_cache, <<>>)]

\* load_cache: the loop over cache_data['photos']; an entry that raises is
\* left out
RECURSIVE LoadPhotos(_)
LoadPhotos(data) ==
    IF data = <<>> THEN <<>>
    ELSE IF Head(data).valid
         THEN <<PhotoFromData(Head(data))>> \o LoadPhotos(Tail(data))
         ELSE LoadPhotos(Tail(data))

\* faulty variant: an entry whose value is None is left out
RECURSIVE LoadLocations_SkipNone(_, _)
LoadLocations_SkipNone(data, acc) ==
    IF data = <<>> THEN acc
    ELSE IF Head(data).v = NoneStr
         THEN LoadLocations_SkipNone(Tail(data), acc)
         ELSE LoadLocations_SkipNone(Tail(data),
                                     DictSet(acc, ParseKey(Head(data).k), Head(data).v))

\* load_cache: the loop over cache_data['location_cache']
RECURSIVE LoadLocations(_, _)
LoadLocations(data, acc) ==
    IF data = <<>> THEN acc
    ELSE LoadLocations(Tail(data),
                       DictSet(acc, ParseKey(Head(data).k), Head(data).v))

\* load_cache: its return value and the fields it leaves behind. Every
\* exception is caught by the outer try, whatever was assigned before it
load_cache(file) ==
    LET untouched == [ret |-> FALSE, photos |-> photos,
                      duplicates |-> duplicates,
                      location_cache |-> location_cache]
    IN  IF cache_file = NoneStr \/ file.kind = "absent" THEN untouched
        ELSE IF file.kind = "truncated" \/ file.malformed \in {"json", "metadata"}
             THEN untouched
        ELSE IF file.malformed = "photos"
             THEN [untouched EXCEPT !.photos = <<>>]
        ELSE IF file.malformed = "duplicates"
             THEN [untouched EXCEPT !.photos = LoadPhotos(file.photos)]
        ELSE IF file.malformed = "location_cache"
             THEN [untouched EXCEPT !.photos = LoadPhotos(file.photos),
                                    !.duplicates = file.duplicates,
                                    !.location_cache = <<>>]
        ELSE [ret |-> TRUE, photos |-> LoadPhotos(file.photos),
              duplicates |-> file.duplicates,
              location_cache |-> LoadLocations(file.location_cache, <<>>)]

\* scan_photos, entry: 'if self.cache_file and self.load_cache(): return'
LoadCache ==
    /\ spc = "load"
    /\ LET r == load_cache(disk_cache)
       IN  /\ photos' = r.photos
           /\ duplicates' = r.duplicates
           /\ location_cache' = r.location_cache
           /\ loaded' = r.ret
           /\ spc' = IF r.ret THEN "returned" ELSE "call"
    /\ UNCHANGED <<tree, max_workers, all_files, tpc, thash, result, collected,
                   hash_cache, hash_cache_lock, cache_file, disk_cache, saving,
                   writes, coords_to_process, ci, now, lookups, configVars,
                   clusterVars, planVars, pureVars>>

\* where a call of save_cache returns to
SaveNext(at) ==
    IF at = "scanned" THEN "enrich"
    ELSE IF at = "enrich_save" THEN "save2"
    ELSE "returned"

\* save_cache up to open(self.cache_file, 'w'): the file is cut to length 0,
\* or open raises and the exception is caught
SaveCacheOpen(at) ==
    /\ spc = at
    /\ ~saving
    /\ IF cache_file = NoneStr
       THEN /\ spc' = SaveNext(at)
            /\ UNCHANGED <<disk_cache, saving>>
       ELSE \E opened \in BOOLEAN :
               IF opened
               THEN /\ disk_cache' = Truncated
                    /\ saving' = TRUE
                    /\ UNCHANGED spc
               ELSE /\ spc' = SaveNext(at)
                    /\ UNCHANGED <<disk_cache, saving>>
    /\ UNCHANGED <<tree, max_workers, all_files, tpc, thash, result, collected,
                   hash_cache, hash_cache_lock, duplicates, photos, cache_file,
                   loaded, writes, location_cache, coords_to_process, ci, now,
                   lookups, configVars, clusterVars, planVars, pureVars>>

\* save_cache: json.dump writes the document, or raises and leaves the file
\* cut short; the file is closed
SaveCacheDump ==
    /\ saving
    /\ \E dumped \in BOOLEAN :
          IF dumped
          THEN /\ disk_cache' = CacheData
               /\ writes' = writes + 1
          ELSE UNCHANGED <<disk_cache, writes>>
    /\ saving' = FALSE
    /\ spc' = SaveNext(spc)
    /\ UNCHANGED <<tree, max_workers, all_files, tpc, thash, result, collected,
                   hash_cache, hash_cache_lock, duplicates, photos, cache_file,
                   loaded, location_cache, coords_to_process, ci, now, lookups,
                   configVars, clusterVars, planVars, pureVars>>

\* post_process_geocoding: coords_to_process
RECURSIVE CollectCoords(_, _)
CollectCoords(ps, acc) ==
    IF ps = <<>> THEN acc
    ELSE IF /\ Head(ps).gps_coords # None
            /\ ~Truthy(Head(ps).location_name)
            /\ RoundedCoords(Head(ps).gps_coords) \notin SeqToSet(acc)
         THEN CollectCoords(Tail(ps), Append(acc, RoundedCoords(Head(ps).gps_coords)))
         ELSE CollectCoords(Tail(ps), acc)

\* post_process_geocoding up to its loop
EnrichBegin ==
    /\ spc = "enrich"
    /\ IF ~use_geocoding
       THEN /\ spc' = "save2"
            /\ UNCHANGED <<coords_to_process, ci>>
       ELSE LET coords == CollectCoords(photos, <<>>)
            IN  IF coords = <<>>
                THEN /\ spc' = "save2"
                     /\ UNCHANGED <<coords_to_process, ci>>
                ELSE /\ spc' = "geocode"
                     /\ coords_to_process' = coords
                     /\ ci' = 1
    /\ UNCHANGED <<tree, max_workers, all_files, tpc, thash, result, collected,
                   hash_cache, hash_cache_lock, duplicates, photos, cache_file,
                   disk_cache, loaded, saving, writes, location_cache, now,
                   lookups, configVars, clusterVars, planVars, pureVars>>

\* what a request can end in: a locality, an answer without one, a
\* requests.RequestException, a body that is no JSON
Outcomes == {"found", "nothing", "neterror", "malformed"}

\* the outcomes after which get_location_name has reached time.sleep
Slept(outcome) == outcome \in {"found", "nothing"}

\* what clean_location_name can return
CleanNames == {"Berlin", "Potsdam", ""}

\* faulty variant: a failed lookup leaves no entry
NegativeEntry_None(cache, rounded_coords) == cache

\* get_location_name, fallback: self.location_cache[rounded_coords] = None
NegativeEntry(cache, rounded_coords) == DictSet(cache, rounded_coords, NoneStr)

\* get_location_name past its cache test, for a request that ends in
\* 'outcome' (with the locality 'name'): the value returned and the cache
get_location_name(coords, outcome, name) ==
    LET rounded_coords == RoundedCoords(coords)
    IN  IF outcome = "found"
        THEN [ret |-> name,
              location_cache |-> DictSet(location_cache, rounded_coords, name)]
        ELSE [ret |-> NoneStr,
              location_cache |-> NegativeEntry(location_cache, rounded_coords)]

\* post_process_geocoding: the photos after a name was found for coords
UpdatePhotos(ps, coords, location_name) ==
    [i \in 1..Len(ps) |->
        IF ps[i].gps_coords # None /\ RoundedCoords(ps[i].gps_coords) = coords
        THEN [ps[i] EXCEPT !.location_name = location_name]
        ELSE ps[i]]

\* post_process_geocoding: one iteration of 'for coords in coords_to_process'
EnrichVisit ==
    /\ spc = "geocode"
    /\ ci <= Len(coords_to_process)
    /\ LET coords == coords_to_process[ci]
       IN  IF DictHas(location_cache, coords)
           THEN UNCHANGED <<location_cache, photos, now, lookups>>
           ELSE \E outcome \in Outcomes, name \in CleanNames, d \in RequestTimes :
                   LET r == get_location_name(coords, outcome, name)
                   IN  /\ lookups' = Append(lookups, [coords |-> coords, at |-> now,
                                                      outcome |-> outcome])
                       /\ now' = now + d + (IF Slept(outcome) THEN RateLimitSleep ELSE 0)
                       /\ location_cache' = r.location_cache
                       /\ photos' = IF Truthy(r.ret)
                                    THEN UpdatePhotos(photos, coords, r.ret)
                                    ELSE photos
    /\ ci' = ci + 1
    /\ UNCHANGED <<tree, max_workers, spc, all_files, tpc, thash, result,
                   collected, hash_cache, hash_cache_lock, duplicates,
                   cache_file, disk_cache, loaded, saving, writes,
                   coords_to_process, configVars, clusterVars, planVars, pureVars>>

\* post_process_geocoding: the loop is over; save_cache follows
EnrichFinish ==
    /\ spc = "geocode"
    /\ ci > Len(coords_to_process)
    /\ spc' = "enrich_save"
    /\ UNCHANGED <<tree, max_workers, all_files, tpc, thash, result, collected,
                   hash_cache, hash_cache_lock, duplicates, photos, runVars,
                   configVars, clusterVars, planVars, pureVars>>

(* ---------------------- scan_photos as a whole ------------------------ *)
MaxRunFiles == 2

\* coordinates of the files: the first two round to the same key
RunCoords == {<<10002, 0>>, <<10004, 0>>, <<10008, 0>>}

RunFiles(i) ==
    [path : {<<"src", ToString(i)>>}, suffix : {".jpg"}, content : Contents,
     readable : {TRUE}, stat_ok : {TRUE}, datetime : {0},
     gps : {None, <<10002, 0>>, <<10008, 0>>}, st_size : {2048}]

RunTrees(n) ==
    {t \in [1..n -> UNION {RunFiles(i) : i \in 1..n}] :
        \A i \in 1..n : t[i].path = <<"src", ToString(i)>>}

\* entries of the photos list of a cache file found at the start
CachedPhotoData ==
    [filepath : {<<"src", "1">>}, datetime : {IsoFormat(0)},
     gps_coords : {<<10002, 0>>}, location_name : {NoneStr, "Berlin"},
     file_hash : {"h1"}, file_size : {2048}, is_video : {FALSE},
     valid : {TRUE}]

\* the cache files a run can find
CacheFiles ==
    {NoFile} \cup
    [kind : {"json"},
     malformed : {"nothing", "json", "metadata", "photos", "duplicates",
                  "location_cache"},
     photos : {<<>>} \cup {<<d>> : d \in CachedPhotoData},
     duplicates : {{<<"src", "9">>}},
     location_cache : {<<>>, <<[k |-> <<10000, 0>>, v |-> "Berlin"]>>}]

InitRun ==
    /\ min_event_photos = 1
    /\ use_geocoding \in BOOLEAN
    /\ photos = <<>>
    /\ max_workers \in 1..MaxWorkers
    /\ \E n \in 0..MaxRunFiles : tree \in RunTrees(n)
    /\ spc = "load"
    /\ all_files = <<>>
    /\ tpc = <<>>
    /\ thash = <<>>
    /\ result = <<>>
    /\ collected = {}
    /\ hash_cache = <<>>
    /\ hash_cache_lock = 0
    /\ duplicates = {}
    /\ ClusterIdle
    /\ PlanIdle
    /\ powershell = FALSE
    /\ target_files = {}
    /\ cache_file \in {"photo_cache_src.json", NoneStr}
    /\ disk_cache \in (IF cache_file = NoneStr THEN {NoFile} ELSE CacheFiles)
    /\ loaded = FALSE
    /\ saving = FALSE
    /\ writes = 0
    /\ location_cache = <<>>
    /\ coords_to_process = <<>>
    /\ ci = 1
    /\ now = 0
    /\ lookups = <<>>
    /\ PureIdle

NextRun ==
    \/ LoadCache
    \/ ScanBegin
    \/ \E i \in Tasks : TaskStart(i)
    \/ \E i \in Tasks : TaskAcquire(i)
    \/ \E i \in Tasks : TaskCheck(i)
    \/ \E i \in Tasks : TaskInsert(i)
    \/ \E i \in Tasks : TaskExtract(i)
    \/ \E i \in Tasks : Collect(i)
    \/ ScanDrained
    \/ \E at \in {"scanned", "enrich_save", "save2"} : SaveCacheOpen(at)
    \/ SaveCacheDump
    \/ EnrichBegin
    \/ EnrichVisit
    \/ EnrichFinish

SpecRun == InitRun /\ [][NextRun]_vars

(* ------------------ post_process_geocoding on its own ----------------- *)
MaxEnrichPhotos == 2

\* records and location cache as load_cache rehydrates them from a cache
\* file, at the call of post_process_geocoding
EnrichPhotos(i) ==
    [filepath : {<<"src", ToString(i)>>}, datetime : {0},
     gps_coords : RunCoords \cup {None}, location_name : {NoneStr, "Berlin"},
     file_hash : {ToString(i)}, file_size : {2048}, is_video : BOOLEAN]

EnrichCaches ==
    {<<>>} \cup
    {<<[k |-> c, v |-> n]>> : c \in {<<10000, 0>>, <<10010, 0>>},
                              n \in {NoneStr, "Berlin", "Potsdam"}}

InitEnrich ==
    /\ min_event_photos = 1
    /\ use_geocoding \in BOOLEAN
    /\ \E n \in 1..MaxEnrichPhotos :
          photos \in {ps \in [1..n -> UNION {EnrichPhotos(i) : i \in 1..n}] :
                        \A i \in 1..n : ps[i].filepath = <<"src", ToString(i)>>}
    /\ max_workers = 1
    /\ tree = <<>>
    /\ spc = "enrich"
    /\ all_files = <<>>
    /\ tpc = <<>>
    /\ thash = <<>>
    /\ result = <<>>
    /\ collected = {}
    /\ hash_cache = <<>>
    /\ hash_cache_lock = 0
    /\ duplicates = {}
    /\ ClusterIdle
    /\ PlanIdle
    /\ powershell = FALSE
    /\ target_files = {}
    /\ cache_file \in {"photo_cache_src.json", NoneStr}
    /\ disk_cache = NoFile
    /\ loaded = TRUE
    /\ saving = FALSE
    /\ writes = 0
    /\ location_cache \in EnrichCaches
    /\ coords_to_process = <<>>
    /\ ci = 1
    /\ now = 0
    /\ lookups = <<>>
    /\ PureIdle

NextEnrich ==
    \/ EnrichBegin
    \/ EnrichVisit
    \/ EnrichFinish
    \/ SaveCacheOpen("enrich_save")
    \/ SaveCacheDump

SpecEnrich == InitEnrich /\ [][NextEnrich]_vars

(* ------------------------- get_best_datetime -------------------------- *)
MaxTags == 2
MaxPatterns == 2

\* the tags get_exif_datetime reads a date from
ExifDateTags == {"DateTime", "DateTimeOriginal", "DateTimeDigitized"}

\* datetime.strptime(value, ...): the datetime of a text of the right shape;
\* a value is [ok, t], ok FALSE for a text strptime raises ValueError on
Parseable(value) == value.ok

\* get_exif_datetime, the loop over exif.items(): the first date tag that
\* parses
RECURSIVE FirstExifDate(_)
FirstExifDate(exif) ==
    IF exif = <<>> THEN None
    ELSE IF Head(exif).tag \in ExifDateTags /\ Parseable(Head(exif).value)
         THEN <<Head(exif).value.t>>
         ELSE FirstExifDate(Tail(exif))

\* get_video_datetime: creation_time of the container, when ffprobe gives
\* one and one of the formats parses it
get_video_datetime(f) ==
    IF f.creation_time # None /\ Parseable(f.creation_time[1])
    THEN <<f.creation_time[1].t>>
    ELSE None

\* get_exif_datetime: None when the image cannot be opened
get_exif_datetime(f) ==
    IF f.suffix \in video_extensions THEN get_video_datetime(f)
    ELSE IF f.image_ok THEN FirstExifDate(f.exif)
    ELSE None

\* get_datetime_from_filename: f.matches holds, for each pattern of
\* self.filename_patterns in order, what re.search finds in the stem: the
\* number of groups (0 for no match), and the date and time they spell
RECURSIVE FirstFilenameDate(_)
FirstFilenameDate(matches) ==
    IF matches = <<>> THEN None
    ELSE LET m == Head(matches)
         IN  IF m.groups = 6 /\ m.valid
             THEN <<m.day * TicksPerDay + m.tick>>
             ELSE IF m.groups = 3 /\ m.valid
                  THEN <<m.day * TicksPerDay + TicksPerDay \div 2>>
                  ELSE FirstFilenameDate(Tail(matches))

get_datetime_from_filename(f) == FirstFilenameDate(f.matches)

\* what a call returns: a datetime, or the exception of filepath.stat()
Returns(t) == [raised |-> FALSE, value |-> t]

Raises == [raised |-> TRUE, value |-> 0]

\* faulty variant: the file name asked before the embedded metadata
get_best_datetime_FilenameFirst(f) ==
    IF get_datetime_from_filename(f) # None
    THEN Returns(get_datetime_from_filename(f)[1])
    ELSE IF get_exif_datetime(f) # None
         THEN Returns(get_exif_datetime(f)[1])
         ELSE IF f.stat_ok THEN Returns(f.mtime) ELSE Raises

get_best_datetime(f) ==
    LET exif_datetime == get_exif_datetime(f)
        filename_datetime == get_datetime_from_filename(f)
    IN  IF exif_datetime # None THEN Returns(exif_datetime[1])
        ELSE IF filename_datetime # None THEN Returns(filename_datetime[1])
        ELSE IF f.stat_ok THEN Returns(f.mtime) ELSE Raises

exif_writable_extensions == {".jpg"}

\* exif_dict[tag] = value
SetTag(exif, tag, value) ==
    IF \E k \in 1..Len(exif) : exif[k].tag = tag
    THEN [k \in 1..Len(exif) |->
             IF exif[k].tag = tag THEN [tag |-> tag, value |-> value] ELSE exif[k]]
    ELSE Append(exif, [tag |-> tag, value |-> value])

\* add_exif_to_file: the tags of the file after the call; saved is FALSE
\* when img.save raises
add_exif_to_file(f, datetime_from_filename, saved) ==
    IF ~add_exif THEN f.exif
    ELSE IF f.suffix \notin exif_writable_extensions THEN f.exif
    ELSE IF get_exif_datetime(f) # None THEN f.exif
    ELSE IF ~f.image_ok THEN f.exif
    ELSE IF ~saved THEN f.exif
    ELSE LET exif_datetime_str == [ok |-> TRUE, t |-> datetime_from_filename]
         IN  SetTag(SetTag(SetTag(f.exif, "DateTime", exif_datetime_str),
                           "DateTimeOriginal", exif_datetime_str),
                    "DateTimeDigitized", exif_datetime_str)

\* get_best_datetime: the tags of the file after the call
ExifAfter(f, saved) ==
    LET exif_datetime == get_exif_datetime(f)
        filename_datetime == get_datetime_from_filename(f)
    IN  IF exif_datetime # None THEN f.exif
        ELSE IF filename_datetime # None
             THEN IF add_exif
                  THEN add_exif_to_file(f, filename_datetime[1], saved)
                  ELSE f.exif
             ELSE f.exif

\* a call of get_best_datetime on the file
ResolveCall ==
    /\ best_datetime = None
    /\ best_datetime' = <<get_best_datetime(filepath)>>
    /\ \E saved \in BOOLEAN : exif_on_disk' = ExifAfter(filepath, saved)
    /\ UNCHANGED <<photos, configVars, clusterVars, scanVars, planVars, runVars,
                   filepath, add_exif, group_photos, dominant_location>>

\* the values of a tag or of creation_time
TagValues == {[ok |-> TRUE, t |-> 3], [ok |-> TRUE, t |-> 6], [ok |-> FALSE, t |-> 0]}

ExifEntries == [tag : {"DateTimeOriginal", "Model"}, value : TagValues]

\* what a pattern finds in a file name
PatternMatches ==
    {[groups |-> 0, valid |-> FALSE, day |-> 0, tick |-> 0],
     [groups |-> 2, valid |-> TRUE, day |-> 0, tick |-> 0],
     [groups |-> 6, valid |-> TRUE, day |-> 2, tick |-> 0],
     [groups |-> 6, valid |-> FALSE, day |-> 2, tick |-> 0],
     [groups |-> 3, valid |-> TRUE, day |-> 4, tick |-> 0]}

ResolveFiles ==
    [suffix : {".jpg", ".png", ".mp4"},
     image_ok : BOOLEAN,
     exif : UNION {[1..n -> ExifEntries] : n \in 0..MaxTags},
     creation_time : {None} \cup {<<v>> : v \in TagValues},
     matches : [1..MaxPatterns -> PatternMatches],
     mtime : {11},
     stat_ok : BOOLEAN]

InitResolve ==
    /\ min_event_photos = 1
    /\ use_geocoding = FALSE
    /\ photos = <<>>
    /\ max_workers = 1
    /\ tree = <<>>
    /\ ScanIdle
    /\ ClusterIdle
    /\ PlanIdle
    /\ powershell = FALSE
    /\ target_files = {}
    /\ cache_file = NoneStr
    /\ RunIdle
    /\ filepath \in ResolveFiles
    /\ best_datetime = None
    /\ add_exif \in BOOLEAN
    /\ exif_on_disk = filepath.exif
    /\ group_photos = <<>>
    /\ dominant_location = "uncalled"

NextResolve == ResolveCall

SpecResolve == InitResolve /\ [][NextResolve]_vars

(* ------------- get_datetime_from_filename on file names --------------- *)
\* Here a file name is the sequence of its characters and a datetime the
\* record of its six fields, so that the patterns of load_filename_patterns
\* are matched as re.search matches them.

\* \d
Digits == {"0", "1", "2", "3", "4", "5", "6", "7", "8", "9"}

\* int(text) of a text of digits
RECURSIVE Number(_)
Number(ds) ==
    IF ds = <<>> THEN 0
    ELSE LET order == <<"0", "1", "2", "3", "4", "5", "6", "7", "8", "9">>
             last == (CHOOSE i \in 1..Len(order) : order[i] = ds[Len(ds)]) - 1
         IN  10 * Number(SubSeq(ds, 1, Len(ds) - 1)) + last

\* the characters the file names are written in ('.' of a pattern matches
\* each of them)
Alphabet ==
    Digits \cup {"-", "_", " ", ".", ":", "I", "M", "G", "W", "A", "S", "a",
                   "c", "e", "g", "h", "i", "l", "n", "o", "r", "s", "t", "x"}

\* the elements of a pattern: one character of a set, a capturing group
\* (\d{n}), a greedy repetition of at least n characters of a set
Lit(c) == [kind |-> "one", chars |-> {c}, n |-> 1]

Group(n) == [kind |-> "group", chars |-> Digits, n |-> n]

Many(set, n) == [kind |-> "many", chars |-> set, n |-> n]

RECURSIVE Literal(_)
Literal(text) ==
    IF text = <<>> THEN <<>> ELSE <<Lit(Head(text))>> \o Literal(Tail(text))

\* the number of characters of the set that follow each other from pos on
RECURSIVE Run(_, _, _)
Run(chars, text, pos) ==
    IF pos <= Len(text) /\ text[pos] \in chars
    THEN 1 + Run(chars, text, pos + 1)
    ELSE 0

NoMatch == [ok |-> FALSE, groups |-> <<>>, end |-> 0]

\* the match of a pattern at a position: a repetition takes as many
\* characters as it can and gives back one at a time
RECURSIVE MatchFrom(_, _, _, _)
RECURSIVE MatchMany(_, _, _, _, _)
MatchFrom(pattern, text, pos, groups) ==
    IF pattern = <<>> THEN [ok |-> TRUE, groups |-> groups, end |-> pos]
    ELSE LET el == Head(pattern)
         IN  IF el.kind = "one"
             THEN IF pos <= Len(text) /\ text[pos] \in el.chars
                  THEN MatchFrom(Tail(pattern), text, pos + 1, groups)
                  ELSE NoMatch
             ELSE IF el.kind = "group"
                  THEN IF /\ pos + el.n - 1 <= Len(text)
                          /\ \A k \in pos..(pos + el.n - 1) : text[k] \in el.chars
                       THEN MatchFrom(Tail(pattern), text, pos + el.n,
                                      Append(groups,
                                             Number(SubSeq(text, pos, pos + el.n - 1))))
                       ELSE NoMatch
                  ELSE MatchMany(pattern, text, pos, groups,
                                 Run(el.chars, text, pos))

MatchMany(pattern, text, pos, groups, k) ==
    IF k < Head(pattern).n THEN NoMatch
    ELSE LET m == MatchFrom(Tail(pattern), text, pos + k, groups)
         IN  IF m.ok THEN m ELSE MatchMany(pattern, text, pos, groups, k - 1)

\* re.search(pattern, filename): the match at the leftmost position that has one
re_search(pattern, text) ==
    LET starts == {pos \in 1..(Len(text) + 1) : MatchFrom(pattern, text, pos, <<>>).ok}
    IN  IF starts = {} THEN NoMatch
        ELSE MatchFrom(pattern, text,
                       CHOOSE pos \in starts : \A q \in starts : pos <= q, <<>>)

\* the constructor datetime(...) raises ValueError outside these ranges
ValidDatetime(year, month, day, hour, minute, second) ==
    /\ year \in 1..9999
    /\ month \in 1..12
    /\ day \in 1..(IF month \in {4, 6, 9, 11} THEN 30
                   ELSE IF month # 2 THEN 31
                   ELSE IF year % 4 = 0 /\ (year % 100 # 0 \/ year % 400 = 0)
                        THEN 29
                        ELSE 28)
    /\ hour \in 0..23
    /\ minute \in 0..59
    /\ second \in 0..59

Datetime(year, month, day, hour, minute, second) ==
    [year |-> year, month |-> month, day |-> day,
     hour |-> hour, minute |-> minute, second |-> second]

DashedDate == <<Group(4), Lit("-"), Group(2), Lit("-"), Group(2)>>

PlainDate == <<Group(4), Group(2), Group(2)>>

\* [\.\-:]
TimeSeparator == [kind |-> "one", chars |-> {".", "-", ":"}, n |-> 1]

\* default_patterns, in the order of the list
default_patterns ==
    << DashedDate \o <<Many({" "}, 1), Group(2), TimeSeparator, Group(2),
                       TimeSeparator, Group(2)>>,
       DashedDate \o <<Lit("_"), Group(2), TimeSeparator, Group(2),
                       TimeSeparator, Group(2)>>,
       PlainDate \o <<Lit("_"), Group(2), Group(2), Group(2)>>,
       DashedDate,
       PlainDate,
       Literal(<<"I", "M", "G", "_">>) \o PlainDate
           \o <<Lit("_"), Group(2), Group(2), Group(2)>>,
       Literal(<<"I", "M", "G", "-">>) \o PlainDate
           \o <<Lit("-"), Lit("W"), Lit("A"), Many(Digits, 1)>>,
       Literal(<<"s", "i", "g", "n", "a", "l", "-">>) \o DashedDate
           \o <<Lit("-"), Group(2), Group(2), Group(2)>>,
       Literal(<<"S", "c", "r", "e", "e", "n", "s", "h", "o", "t", "_">>)
           \o DashedDate
           \o <<Lit("-"), Group(2), Lit("-"), Group(2), Lit("-"), Group(2)>>,
       <<Many(Alphabet, 0)>> \o PlainDate \o <<Many(Alphabet, 0)>> >>

\* the loop over self.filename_patterns: the first pattern that matches
\* with six or three groups that make a datetime
RECURSIVE FirstPatternDate(_, _)
FirstPatternDate(patterns, filename) ==
    IF patterns = <<>> THEN None
    ELSE LET match == re_search(Head(patterns), filename)
             groups == match.groups
         IN  IF /\ match.ok
                /\ Len(groups) = 6
                /\ ValidDatetime(groups[1], groups[2], groups[3],
                                 groups[4], groups[5], groups[6])
             THEN <<Datetime(groups[1], groups[2], groups[3],
                             groups[4], groups[5], groups[6])>>
             ELSE IF /\ match.ok
                     /\ Len(groups) = 3
                     /\ ValidDatetime(groups[1], groups[2], groups[3], 12, 0, 0)
                  THEN <<Datetime(groups[1], groups[2], groups[3], 12, 0, 0)>>
                  ELSE FirstPatternDate(Tail(patterns), filename)

\* a call of get_datetime_from_filename on the file, with the default
\* patterns
FilenameCall ==
    /\ best_datetime = None
    /\ best_datetime' = <<FirstPatternDate(default_patterns, filepath.stem)>>
    /\ UNCHANGED <<photos, configVars, clusterVars, scanVars, planVars, runVars,
                   filepath, add_exif, exif_on_disk, group_photos,
                   dominant_location>>

\* file names: a prefix, a date, and what follows the date
NamePrefixes ==
    { <<>>,
      <<"I", "M", "G", "_">>,
      <<"I", "M", "G", "-">>,
      <<"s", "i", "g", "n", "a", "l", "-">>,
      <<"S", "c", "r", "e", "e", "n", "s", "h", "o", "t", "_">>,
      <<"x">> }

NameDates ==
    { <<"2", "0", "2", "4", "-", "0", "5", "-", "0", "1">>,
      <<"2", "0", "2", "4", "0", "5", "0", "1">>,
      <<"2", "0", "2", "4", "-", "0", "2", "-", "3", "0">>,
      <<"2", "0", "2", "4", "1", "3", "0", "1">>,
      <<>> }

NameTimes ==
    { <<>>,
      <<"-", "1", "4", "3", "0", "0", "0">>,
      <<"-", "1", "4", "-", "3", "0", "-", "0", "0">>,
      <<"_", "1", "4", "3", "0", "0", "0">>,
      <<"_", "1", "4", ".", "3", "0", ".", "0", "0">>,
      <<" ", "1", "4", ".", "3", "0", ".", "0", "0">>,
      <<"_", "2", "5", "3", "0", "0", "0">>,
      <<"-", "W", "A", "0", "0", "0", "1">> }

InitFilename ==
    /\ min_event_photos = 1
    /\ use_geocoding = FALSE
    /\ photos = <<>>
    /\ max_workers = 1
    /\ tree = <<>>
    /\ ScanIdle
    /\ ClusterIdle
    /\ PlanIdle
    /\ powershell = FALSE
    /\ target_files = {}
    /\ cache_file = NoneStr
    /\ RunIdle
    /\ filepath \in {[stem |-> pre \o date \o time] :
                       pre \in NamePrefixes, date \in NameDates, time \in NameTimes}
                   \ {[stem |-> <<>>]}
    /\ best_datetime = None
    /\ add_exif = FALSE
    /\ exif_on_disk = <<>>
    /\ group_photos = <<>>
    /\ dominant_location = "uncalled"

NextFilename == FilenameCall

SpecFilename == InitFilename /\ [][NextFilename]_vars

(* ----------------------- get_dominant_location ------------------------ *)
MaxMembers == 10

\* a call of get_dominant_location on the group
DominantCall ==
    /\ dominant_location = "uncalled"
    /\ dominant_location' = get_dominant_location(group_photos)
    /\ UNCHANGED <<photos, configVars, clusterVars, scanVars, planVars, runVars,
                   filepath, best_datetime, add_exif, exif_on_disk, group_photos>>

\* the place names of the members of a group
MemberNames == {NoneStr, "Berlin", "Potsdam"}

MkMember(i, name) ==
    [filepath |-> <<"src", ToString(i)>>, datetime |-> 0, gps_coords |-> None,
     location_name |-> name, file_hash |-> ToString(i),
     file_size |-> 2048, is_video |-> FALSE]

InitDominant ==
    /\ min_event_photos = 1
    /\ use_geocoding \in BOOLEAN
    /\ photos = <<>>
    /\ max_workers = 1
    /\ tree = <<>>
    /\ ScanIdle
    /\ ClusterIdle
    /\ PlanIdle
    /\ powershell = FALSE
    /\ target_files = {}
    /\ cache_file = NoneStr
    /\ RunIdle
    /\ filepath = <<>>
    /\ best_datetime = None
    /\ add_exif = FALSE
    /\ exif_on_disk = <<>>
    /\ \E n \in 0..MaxMembers :
          \E names \in [1..n -> MemberNames] :
             group_photos = [i \in 1..n |-> MkMember(i, names[i])]
    /\ dominant_location = "uncalled"

NextDominant == DominantCall

SpecDominant == InitDominant /\ [][NextDominant]_vars

(* ------------------------------ planner ------------------------------- *)
\* group_photos_into_events as a function of self.photos
RECURSIVE RunLoop(_, _)
RunLoop(st, ps) ==
    IF ps = <<>> THEN st ELSE RunLoop(LoopBody(st, Head(ps)), Tail(ps))

group_photos_into_events(ps) ==
    IF ps = <<>> THEN <<>>
    ELSE AfterLoop(RunLoop(EmptyLoopState, SortByDatetime(ps))).events

\* a file name is <<stem, suffix>>; f"{stem}_{counter}{suffix}"
Suffixed(name, counter) == <<name[1] \o "_" \o ToString(counter), name[2]>>

\* a path under target_dir is <<folder, name>>, the folder an event name;
\* target_dir / "." is target_dir itself
FileName(photo) == photo.filepath[2]

\* organize_photos: target_folder of a group
TargetFolder(event_name) == event_name

\* generate_bash_script: target_folder of a group; the names "einzeldateien"
\* and "<year>/einzeldateien" of its first branch are no keys of events
TargetFolderBash(event_name) ==
    IF event_name.kind = "einzeldateien"
    THEN [event_name EXCEPT !.place = "einzeldateien"]
    ELSE event_name

\* generate_powershell_script: target_folder of a group
TargetFolderPowershell(event_name) == event_name

\* the list of all the members of a mapping with their group's key
RECURSIVE Flatten(_)
Flatten(evts) ==
    IF evts = <<>> THEN <<>>
    ELSE [j \in 1..Len(Head(evts).v) |-> [k |-> Head(evts).k, photo |-> Head(evts).v[j]]]
             \o Flatten(Tail(evts))

\* generate_bash_script: all_moves
BashMoves(evts) ==
    LET flat == Flatten(evts)
    IN  [n \in 1..Len(flat) |->
            <<flat[n].photo.filepath,
              <<TargetFolderBash(flat[n].k), FileName(flat[n].photo)>>>>]

\* generate_powershell_script: all_moves
PowershellMoves(evts) ==
    LET flat == Flatten(evts)
    IN  [n \in 1..Len(flat) |->
            <<flat[n].photo.filepath,
              <<TargetFolderPowershell(flat[n].k), FileName(flat[n].photo)>>>>]

\* faulty variant: the while loop dropped
ResolveConflict_NoLoop(folder, name, target_path, counter, files) == target_path

\* the while loop of organize_photos: the first free name among name,
\* name_1, name_2, ...
RECURSIVE ResolveConflict(_, _, _, _, _)
ResolveConflict(folder, name, target_path, counter, files) ==
    IF target_path \in files
    THEN ResolveConflict(folder, name, <<folder, Suffixed(name, counter)>>,
                         counter + 1, files)
    ELSE target_path

\* organize_photos: target_path of a member, after the while loop
TargetPath(event_name, photo, dry_run) ==
    LET target_folder == TargetFolder(event_name)
        original_target == <<target_folder, FileName(photo)>>
    IN  IF dry_run THEN original_target
        ELSE ResolveConflict(target_folder, FileName(photo), original_target,
                             1, target_files)

\* the three calls of one session on the same events: a dry run, a script
\* export (generate_script with dry_run) and an execution
Runs == <<"preview", "script", "execute">>

\* organize_photos(dry_run = True) with generate_script: the script is
\* written, self.move_commands set, and the call returns
ScriptExport ==
    /\ ppc = "call"
    /\ run <= Len(Runs)
    /\ Runs[run] = "script"
    /\ move_commands' = IF powershell THEN PowershellMoves(events)
                        ELSE BashMoves(events)
    /\ run' = run + 1
    /\ UNCHANGED <<powershell, ppc, gi, mi, moved_count, error_count,
                   preview_moves, exec_moves, target_files, photos,
                   configVars, runVars, pureVars, clusterVars, scanVars>>

\* organize_photos without generate_script, up to the loop
OrganizeCall ==
    /\ ppc = "call"
    /\ run <= Len(Runs)
    /\ Runs[run] \in {"preview", "execute"}
    /\ ppc' = "loop"
    /\ gi' = 1
    /\ mi' = 1
    /\ moved_count' = 0
    /\ error_count' = 0
    /\ UNCHANGED <<run, powershell, preview_moves, exec_moves, move_commands,
                   target_files, photos, configVars, runVars, pureVars, clusterVars, scanVars>>

\* the loop position after the member (gi, mi)
AdvanceMember ==
    IF mi < Len(events[gi].v)
    THEN /\ mi' = mi + 1
         /\ gi' = gi
    ELSE /\ mi' = 1
         /\ gi' = gi + 1

\* organize_photos, dry run: one iteration of 'for photo in photos'
PreviewStep ==
    /\ ppc = "loop"
    /\ Runs[run] = "preview"
    /\ gi <= Len(events)
    /\ LET photo == events[gi].v[mi]
           target_path == TargetPath(events[gi].k, photo, TRUE)
       IN  preview_moves' = Append(preview_moves, <<photo.filepath, target_path>>)
    /\ moved_count' = moved_count + 1
    /\ AdvanceMember
    /\ UNCHANGED <<run, powershell, ppc, error_count, exec_moves,
                   move_commands, target_files, photos, configVars, runVars, pureVars,
                   clusterVars, scanVars>>

\* faulty variant: the except branch without its error_count += 1
Counted_ErrorsDropped(moved, errors, ok) ==
    IF ok THEN [moved_count |-> moved + 1, error_count |-> errors]
    ELSE [moved_count |-> moved, error_count |-> errors]

\* the try statement: moved_count += 1 after the move, error_count += 1 in
\* the except branch
Counted(moved, errors, ok) ==
    IF ok THEN [moved_count |-> moved + 1, error_count |-> errors]
    ELSE [moved_count |-> moved, error_count |-> errors + 1]

\* organize_photos, execution: one iteration of 'for photo in photos';
\* shutil.move succeeds or raises
ExecStep ==
    /\ ppc = "loop"
    /\ Runs[run] = "execute"
    /\ gi <= Len(events)
    /\ LET photo == events[gi].v[mi]
           target_path == TargetPath(events[gi].k, photo, FALSE)
       IN  /\ exec_moves' = Append(exec_moves, <<photo.filepath, target_path>>)
           /\ \E ok \in BOOLEAN :
                 /\ target_files' = IF ok THEN target_files \cup {target_path}
                                    ELSE target_files
                 /\ moved_count' = Counted(moved_count, error_count, ok).moved_count
                 /\ error_count' = Counted(moved_count, error_count, ok).error_count
    /\ AdvanceMember
    /\ UNCHANGED <<run, powershell, ppc, preview_moves, move_commands,
                   photos, configVars, runVars, pureVars, clusterVars, scanVars>>

\* organize_photos: the loop is over, the summary printed
OrganizeReturn ==
    /\ ppc = "loop"
    /\ gi > Len(events)
    /\ ppc' = "call"
    /\ run' = run + 1
    /\ UNCHANGED <<powershell, gi, mi, moved_count, error_count,
                   preview_moves, exec_moves, move_commands, target_files,
                   photos, configVars, runVars, pureVars, clusterVars, scanVars>>

\* the file names and source subfolders of the planner's inputs
Stems == {"a", "b"}

PlanTimes == {0, (MaxDay + 1) * TicksPerDay - 1}

MkPlanPhoto(i, t, stem) ==
    [filepath |-> <<"src/d" \o ToString(i), <<stem, ".jpg">>>>, datetime |-> t,
     gps_coords |-> None, location_name |-> NoneStr, file_hash |-> ToString(i),
     file_size |-> 2048, is_video |-> FALSE]

\* files a target tree may hold before the run
ExistingNames == {<<"a", ".jpg">>, <<"a_1", ".jpg">>}

InitPlan ==
    /\ min_event_photos \in 1..MaxMinEventPhotos
    /\ use_geocoding = FALSE
    /\ \E n \in 1..MaxPhotos :
         \E ts \in [1..n -> PlanTimes], ss \in [1..n -> Stems] :
            photos = [i \in 1..n |-> MkPlanPhoto(i, ts[i], ss[i])]
    /\ cpc = "done"
    /\ sorted_photos = SortByDatetime(photos)
    /\ idx = Len(photos) + 1
    /\ LET st == AfterLoop(RunLoop(EmptyLoopState, sorted_photos))
       IN  /\ events = st.events
           /\ current_event_photos = st.current_event_photos
           /\ current_event_start = st.current_event_start
           /\ single_files = st.single_files
    /\ ScanIdle
    /\ tree = <<>>
    /\ max_workers = 1
    /\ PlanIdle
    /\ powershell \in BOOLEAN
    /\ target_files \in SUBSET {<<TargetFolder(events[g].k), nm>> :
                                   g \in 1..Len(events), nm \in ExistingNames}
    /\ cache_file = NoneStr
    /\ RunIdle
    /\ PureIdle

NextPlan ==
    \/ OrganizeCall
    \/ PreviewStep
    \/ ScriptExport
    \/ ExecStep
    \/ OrganizeReturn

SpecPlan == InitPlan /\ [][NextPlan]_vars

(* ------------------- the clustering pass on its own ------------------- *)
Ticks == 0..((MaxDay + 1) * TicksPerDay - 1)

\* three points of the meridian 0: 8.9 km apart each, the outer two 17.8 km
CoordSet == {<<0, 0>>, <<8, 0>>, <<16, 0>>}

\* the place name the enrichment pass stored for a coordinate
PlaceOf(c) == IF c = None THEN NoneStr
              ELSE IF c[1] < 16 THEN "Berlin" ELSE "Potsdam"

MkPhoto(i, t, g) ==
    [filepath |-> <<"src", ToString(i)>>, datetime |-> t, gps_coords |-> g,
     location_name |-> IF use_geocoding THEN PlaceOf(g) ELSE NoneStr,
     file_hash |-> ToString(i), file_size |-> 2048, is_video |-> FALSE]

InitCluster ==
    /\ min_event_photos \in 1..MaxMinEventPhotos
    /\ use_geocoding \in BOOLEAN
    /\ \E n \in 0..MaxPhotos :
         \E ts \in [1..n -> Ticks], gs \in [1..n -> CoordSet \cup {None}] :
            photos = [i \in 1..n |-> MkPhoto(i, ts[i], gs[i])]
    /\ ClusterIdle
    /\ ScanIdle
    /\ tree = <<>>
    /\ max_workers = 1
    /\ PlanIdle
    /\ powershell = FALSE
    /\ target_files = {}
    /\ cache_file = NoneStr
    /\ RunIdle
    /\ PureIdle

NextCluster == GroupBegin \/ GroupVisit \/ GroupFinish

SpecCluster == InitCluster /\ [][NextCluster]_vars

(* ========================== claims: scan ============================== *)
\* the task has passed the duplicate-index check
Passed(i) == tpc[i] \in {"insert", "extract", "ret_ok", "ret_err"}

IsRecord(i) == \E k \in 1..Len(photos) : photos[k].filepath = all_files[i].path

IsDuplicate(i) == all_files[i].path \in duplicates

\* C1: at every moment of a scan no two tasks with the same content hash
\* have passed the duplicate-index check, and no two records of the record
\* list have the same file_hash.
C1_UniqueHash ==
    /\ \A i, j \in Tasks :
          (i # j /\ Passed(i) /\ Passed(j)) => thash[i] # thash[j]
    /\ \A k, l \in 1..Len(photos) :
          k # l => photos[k].file_hash # photos[l].file_hash

\* C1 witness: a pool of two workers has scanned two files of equal hash;
\* the first is the one record, the second a duplicate
C1_Witness ==
    /\ spc = "scanned"
    /\ max_workers = 2
    /\ \E i, j \in Tasks :
          /\ i < j
          /\ thash[i] = thash[j]
          /\ IsRecord(i)
          /\ IsDuplicate(j)

\* C2 (as claimed): when the scan has ended, of any two readable files with
\* identical content (whose extraction does not fail) the one earlier in
\* discovery order is a record and the later one is in duplicates.
C2_FirstDiscoveredKept ==
    spc = "scanned" =>
        \A i, j \in Tasks :
            (/\ i < j
             /\ all_files[i].content = all_files[j].content
             /\ all_files[i].readable /\ all_files[j].readable
             /\ all_files[i].stat_ok /\ all_files[j].stat_ok)
                => (IsRecord(i) /\ ~IsDuplicate(i) /\ IsDuplicate(j) /\ ~IsRecord(j))

\* the task whose path the duplicate index holds for its hash
OwnsHash(i) ==
    /\ DictHas(hash_cache, thash[i])
    /\ DictGet(hash_cache, thash[i]) = all_files[i].path

\* C2 (amended): when the scan has ended, of any two files with the same
\* content hash at most one passed the duplicate-index check (it owns the
\* index entry); only that one can be a record, and it is one unless its
\* extraction failed; a file that does not own the entry is in duplicates and
\* is no record; with one worker the later file is never the owner.
C2_FirstPastCheckKept ==
    spc = "scanned" =>
        \A i, j \in Tasks :
            (i < j /\ thash[i] = thash[j]) =>
                /\ ~(OwnsHash(i) /\ OwnsHash(j))
                /\ ~OwnsHash(i) => (IsDuplicate(i) /\ ~IsRecord(i))
                /\ ~OwnsHash(j) => (IsDuplicate(j) /\ ~IsRecord(j))
                /\ IsRecord(i) <=> (OwnsHash(i) /\ all_files[i].stat_ok)
                /\ IsRecord(j) <=> (OwnsHash(j) /\ all_files[j].stat_ok)
                /\ max_workers = 1 => ~OwnsHash(j)

\* C2 witness: the scan has ended with the later of two files of identical
\* content as the record and the earlier one in duplicates
C2_Witness ==
    /\ spc = "scanned"
    /\ \E i, j \in Tasks :
          /\ i < j
          /\ all_files[i].content = all_files[j].content
          /\ all_files[i].readable /\ all_files[j].readable
          /\ all_files[i].stat_ok /\ all_files[j].stat_ok
          /\ IsRecord(j)
          /\ IsDuplicate(i)

(* ========================= claims: planner ============================ *)
\* C9 (as claimed): once the dry run, the script export and the execution
\* of one session have run on the same events, the list of (source,
\* destination) pairs of each is the same list.
C9_PlanAgreement ==
    run > Len(Runs) =>
        /\ preview_moves = move_commands
        /\ move_commands = exec_moves

\* C10 (as claimed): no two entries of move_commands have the same
\* destination path.
C10_ConflictFree ==
    \A m, n \in 1..Len(move_commands) :
        m # n => move_commands[m][2] # move_commands[n][2]

(* ======================= claims: clustering =========================== *)
\* the loop is about to test sorted_photos[idx] against a non-empty cluster
Visiting ==
    /\ cpc = "loop"
    /\ idx <= Len(sorted_photos)
    /\ current_event_photos # <<>>

Incoming == sorted_photos[idx]

FirstMember == current_event_photos[1]

GpsMembers ==
    {i \in 1..Len(current_event_photos) : current_event_photos[i].gps_coords # None}

WholeDays(r, first) == (r.datetime - first.datetime) \div TicksPerDay

TimeOK == WholeDays(Incoming, FirstMember) <= event_max_days

Veto ==
    /\ Incoming.gps_coords # None
    /\ GpsMembers # {}
    /\ \A i \in GpsMembers :
          calculate_distance(Incoming.gps_coords,
                             current_event_photos[i].gps_coords)
              > geo_radius_km * 1000

JoinCaseA == Incoming.gps_coords = None
JoinCaseB == GpsMembers = {}
JoinCaseC ==
    /\ Incoming.gps_coords # None
    /\ \E i \in GpsMembers :
          calculate_distance(Incoming.gps_coords,
                             current_event_photos[i].gps_coords)
              <= geo_radius_km * 1000

Joined == current_event_photos' = Append(current_event_photos, Incoming)

StartedNew ==
    /\ current_event_photos' = <<Incoming>>
    /\ current_event_start' = <<Incoming.datetime>>

NamedGroups(evts) == {i \in 1..Len(evts) : evts[i].k # LooseKey}

\* the cluster that was open is closed by this step
ClosedOld ==
    IF Len(current_event_photos) >= min_event_photos
    THEN /\ \E i \in NamedGroups(events') : events'[i].v = current_event_photos
         /\ single_files' = single_files
    ELSE /\ single_files' = single_files \o current_event_photos
         /\ events' = events

\* C3 (as claimed): when cluster() has returned, every record of the run is
\* a member of exactly one group of the returned mapping.
C3_Partition ==
    cpc = "done" =>
        \A p \in 1..Len(photos) :
            Cardinality({<<i, j>> \in (1..Len(events)) \X (1..MaxPhotos) :
                            /\ j <= Len(events[i].v)
                            /\ events[i].v[j] = photos[p]}) = 1

\* C4: an incoming record that passes the time criterion, has GPS, and finds
\* GPS-bearing members in the open cluster but none within geo_radius_km is
\* not appended: the open cluster is closed and a new one starts with it.
C4_GeoVeto ==
    [][(Visiting /\ TimeOK /\ Veto) => (StartedNew /\ ClosedOld /\ ~Joined)]_vars

\* C4 witness: the second record, in time and with GPS, did not join the
\* first, which has GPS out of range, and opened its own cluster.
C4_Witness ==
    /\ cpc = "loop" /\ idx = 3
    /\ current_event_photos = <<sorted_photos[2]>>
    /\ sorted_photos[1].gps_coords # None
    /\ sorted_photos[2].gps_coords # None
    /\ WholeDays(sorted_photos[2], sorted_photos[1]) <= event_max_days
    /\ calculate_distance(sorted_photos[1].gps_coords,
                          sorted_photos[2].gps_coords) > geo_radius_km * 1000

\* C5: an incoming record that passes the time criterion is appended to the
\* open cluster iff (a) it has no GPS, or (b) no member has GPS, or (c) some
\* GPS-bearing member is within geo_radius_km; otherwise it is the veto case,
\* and exactly one of "a or b or c" and "veto" holds.
C5_GeoJoin ==
    [][(Visiting /\ TimeOK) =>
          /\ Joined <=> (JoinCaseA \/ JoinCaseB \/ JoinCaseC)
          /\ StartedNew <=> Veto
          /\ Veto <=> ~(JoinCaseA \/ JoinCaseB \/ JoinCaseC)]_vars

\* C5 witness: a record with GPS joined a cluster whose only member has none
C5_Witness ==
    /\ cpc = "loop" /\ idx = 3
    /\ current_event_photos = <<sorted_photos[1], sorted_photos[2]>>
    /\ sorted_photos[1].gps_coords = None
    /\ sorted_photos[2].gps_coords # None

\* C6: start is the timestamp of the open cluster's first member throughout;
\* the incoming record is time-compatible iff the whole days between it and
\* start are <= event_max_days; if not, the cluster is closed and a new one
\* starts whatever the GPS data; a record exactly event_max_days (3) days
\* after start joins when there is no geo veto.
C6_TimeCriterion ==
    [][Visiting =>
          /\ current_event_start = <<FirstMember.datetime>>
          /\ ~TimeOK => (StartedNew /\ ClosedOld)
          /\ (TimeOK /\ ~Veto) => (Joined /\ UNCHANGED current_event_start)
          /\ (/\ event_max_days = 3
              /\ Incoming.datetime - FirstMember.datetime = 3 * TicksPerDay
              /\ ~Veto) => Joined]_vars

\* C6 witness: the open cluster holds two records exactly 3 days apart
C6_Witness ==
    /\ cpc = "loop"
    /\ Len(current_event_photos) >= 2
    /\ current_event_photos[2].datetime - current_event_photos[1].datetime
          = 3 * TicksPerDay

\* C7 (as claimed): no member of the open cluster lies on the calendar day
\* event_max_days + 1 days after the calendar day of the first member
\* (Day 5 against Day 1).
C7_Day5NeverJoins ==
    \A i \in 1..Len(current_event_photos) :
        DateOf(current_event_photos[i].datetime)
            - DateOf(current_event_photos[1].datetime) # event_max_days + 1

TimeOfDay(t) == t % TicksPerDay

\* C7 (amended): a Day 5 record starts a new cluster when its time of day is
\* not earlier than that of the Day 1 first member (4 whole days or more
\* apart); when its time of day is earlier (3 whole days apart) it joins the
\* cluster unless the geo veto applies.
C7_Day5ByTimeOfDay ==
    [][(/\ Visiting
        /\ DateOf(Incoming.datetime) - DateOf(FirstMember.datetime)
              = event_max_days + 1) =>
          /\ TimeOfDay(Incoming.datetime) >= TimeOfDay(FirstMember.datetime)
                => (StartedNew /\ ~Joined)
          /\ (/\ TimeOfDay(Incoming.datetime) < TimeOfDay(FirstMember.datetime)
              /\ ~Veto) => Joined]_vars

\* C7 witness: a Day 5 record without GPS opened a new cluster after a
\* cluster begun on Day 1
C7_Witness ==
    /\ cpc = "loop" /\ idx = 3
    /\ current_event_photos = <<sorted_photos[2]>>
    /\ sorted_photos[2].gps_coords = None
    /\ DateOf(sorted_photos[2].datetime) - DateOf(sorted_photos[1].datetime)
          = event_max_days + 1

IsPrefix(s, t) == Len(s) <= Len(t) /\ SubSeq(t, 1, Len(s)) = s

\* C8: a cluster closed (in the loop or after it) with fewer than
\* min_event_photos members adds no named event and its members are appended
\* to the loose files, which only grow and are returned under the "." key; a
\* cluster closed with at least min_event_photos members is stored as a named
\* event and the loose files stay as they are, none of its members in them.
C8_MinSizeDemotion ==
    [][/\ (Visiting /\ current_event_photos' = <<Incoming>>) => ClosedOld
       /\ (cpc = "loop" /\ cpc' = "done" /\ current_event_photos # <<>>) =>
             IF Len(current_event_photos) >= min_event_photos
             THEN /\ \E i \in NamedGroups(events') :
                        events'[i].v = current_event_photos
                  /\ single_files' = single_files
                  /\ SeqToSet(current_event_photos) \cap SeqToSet(single_files') = {}
             ELSE /\ single_files' = single_files \o current_event_photos
                  /\ {events'[i] : i \in NamedGroups(events')}
                        = {events[i] : i \in NamedGroups(events)}
       /\ cpc = "loop" =>
             /\ IsPrefix(single_files, single_files')
             /\ SeqToSet(current_event_photos) \cap SeqToSet(single_files) = {}
       /\ (cpc' = "done" /\ single_files' # <<>>) =>
             /\ DictHas(events', LooseKey)
             /\ DictGet(events', LooseKey) = single_files']_vars

\* C8 witness: with min_event_photos = 2 the pass ended with the first
\* record demoted to the loose files and the other two as a named event
C8_Witness ==
    /\ cpc = "done"
    /\ min_event_photos = 2
    /\ Len(sorted_photos) = 3
    /\ single_files = <<sorted_photos[1]>>
    /\ \E i \in NamedGroups(events) :
          events[i].v = <<sorted_photos[2], sorted_photos[3]>>

(* ==================== claims: cache and enrichment ==================== *)
\* the rounded coordinate of a record has been looked up or is cached
Attempted(photo) ==
    \/ DictHas(location_cache, RoundedCoords(photo.gps_coords))
    \/ \E k \in 1..Len(lookups) :
          lookups[k].coords = RoundedCoords(photo.gps_coords)

\* C11 (as claimed): when scan_photos has returned on a loaded cache, with
\* geocoding enabled, every record with GPS coordinates has its rounded
\* coordinate in the location cache or has had a lookup attempted.
C11_CachedRunEnriches ==
    (spc = "returned" /\ loaded /\ use_geocoding) =>
        \A i \in 1..Len(photos) :
            photos[i].gps_coords # None => Attempted(photos[i])

\* a record without its place name
Unnamed(photo) == [photo EXCEPT !.location_name = NoneStr]

\* the file holds every record (place names aside) and every duplicate path
DiskHasScan ==
    /\ disk_cache.kind = "json"
    /\ LET stored == LoadPhotos(disk_cache.photos)
       IN  /\ Len(stored) = Len(photos)
           /\ \A i \in 1..Len(photos) : Unnamed(stored[i]) = Unnamed(photos[i])
    /\ disk_cache.duplicates = duplicates

\* C12 (as claimed): at every point from the first completed write of the
\* cache on, the cache file holds the complete record list and duplicate set
\* of the scan.
C12_CacheKeepsScan == writes >= 1 => DiskHasScan

\* C13 (as claimed): after a load that failed, records, duplicates and
\* location cache are empty when the rescan starts, and the run ends with no
\* file twice in the record list.
C13_FailedLoadIsClean ==
    /\ (spc = "call" /\ ~loaded) =>
          /\ photos = <<>>
          /\ duplicates = {}
          /\ location_cache = <<>>
    /\ (spc = "returned" /\ ~loaded) =>
          \A k, l \in 1..Len(photos) :
              k # l => photos[k].filepath # photos[l].filepath

\* C14 (as claimed): between any two consecutive requests at least the delay
\* of one second elapses, whatever the earlier request ended in.
C14_RateLimit ==
    \A k \in 1..(Len(lookups) - 1) :
        lookups[k + 1].at - lookups[k].at >= MinDelay

\* the step makes a request
LookupStep == Len(lookups') = Len(lookups) + 1

\* C15: a request that fails or finds no locality stores None for the
\* rounded coordinate and leaves every record as it is; no rounded coordinate
\* is requested twice in one pass; a coordinate with an entry is not
\* requested.
C15_NegativeEntry ==
    /\ [](\A k, l \in 1..Len(lookups) :
             k # l => lookups[k].coords # lookups[l].coords)
    /\ [][LookupStep =>
            LET last == lookups'[Len(lookups')]
            IN  /\ ~DictHas(location_cache, last.coords)
                /\ last.outcome # "found" =>
                      /\ DictHas(location_cache', last.coords)
                      /\ DictGet(location_cache', last.coords) = NoneStr
                      /\ photos' = photos]_vars

\* C15 witness: the pass has ended after a failed request; the coordinate has
\* the entry None and a record at it has no place name
C15_Witness ==
    /\ spc = "save2"
    /\ \E k \in 1..Len(lookups) :
          /\ lookups[k].outcome \in {"neterror", "malformed"}
          /\ DictHas(location_cache, lookups[k].coords)
          /\ DictGet(location_cache, lookups[k].coords) = NoneStr
          /\ \E i \in 1..Len(photos) :
                /\ photos[i].gps_coords # None
                /\ RoundedCoords(photos[i].gps_coords) = lookups[k].coords
                /\ photos[i].location_name = NoneStr

\* C16 (as claimed): when post_process_geocoding has returned with geocoding
\* enabled, every record with GPS whose rounded coordinate has a non-empty
\* name in the location cache has that name as its location_name.
C16_NamesApplied ==
    (spc = "save2" /\ use_geocoding) =>
        \A i \in 1..Len(photos) :
            (/\ photos[i].gps_coords # None
             /\ DictHas(location_cache, RoundedCoords(photos[i].gps_coords))
             /\ Truthy(DictGet(location_cache, RoundedCoords(photos[i].gps_coords))))
                => photos[i].location_name
                      = DictGet(location_cache, RoundedCoords(photos[i].gps_coords))

\* C17: no request is made while a task of the pool is queued or running or
\* its future not yet collected; a step makes at most one request, and none
\* while the cache is being written.
C17_PhaseSeparation ==
    /\ [](lookups # <<>> =>
             /\ spc \notin {"load", "call", "pool"}
             /\ Running = {}
             /\ \A i \in Tasks : tpc[i] # "queued"
             /\ collected = Tasks)
    /\ [][/\ Len(lookups') <= Len(lookups) + 1
          /\ LookupStep => (/\ Running = {}
                            /\ collected = Tasks
                            /\ Returned = Tasks
                            /\ ~saving)]_vars

\* C17 witness: a pool of two workers has scanned two files and a request
\* has been made
C17_Witness ==
    /\ lookups # <<>>
    /\ max_workers = 2
    /\ Len(all_files) = 2
    /\ collected = {1, 2}

\* C18 (as claimed): when the scan has ended, a file whose task raised is in
\* neither the record list nor duplicates, and every path in duplicates is a
\* file whose hash is the hash of another file, which owns the index entry.
C18_FailureIsSkip ==
    spc = "scanned" =>
        \A i \in Tasks :
            /\ tpc[i] = "ret_err" => (~IsRecord(i) /\ ~IsDuplicate(i))
            /\ IsDuplicate(i) =>
                  \E j \in Tasks : j # i /\ thash[j] = thash[i] /\ OwnsHash(j)

(* ================= claims: timestamp and dominant place =============== *)
\* the embedded capture time of the file that can be read: of a video the
\* creation_time, of an image that opens the first date tag with a value that
\* parses
DateTagsAt(f) ==
    {k \in 1..Len(f.exif) : f.exif[k].tag \in ExifDateTags /\ f.exif[k].value.ok}

HasEmbedded(f) ==
    IF f.suffix \in video_extensions
    THEN f.creation_time # None /\ f.creation_time[1].ok
    ELSE f.image_ok /\ DateTagsAt(f) # {}

Embedded(f) ==
    IF f.suffix \in video_extensions THEN f.creation_time[1].t
    ELSE f.exif[CHOOSE k \in DateTagsAt(f) : \A l \in DateTagsAt(f) : k <= l].value.t

\* the patterns that match the file name with a valid date
DatedMatchesAt(f) ==
    {k \in 1..Len(f.matches) : f.matches[k].groups \in {3, 6} /\ f.matches[k].valid}

FromName(f) ==
    LET m == f.matches[CHOOSE k \in DatedMatchesAt(f) :
                           \A l \in DatedMatchesAt(f) : k <= l]
    IN  m.day * TicksPerDay + (IF m.groups = 6 THEN m.tick ELSE TicksPerDay \div 2)

\* C19: get_best_datetime returns the embedded capture time whenever one can
\* be read, whatever the file name spells; otherwise the time of the first
\* pattern that matches with a valid date; and the modification time only
\* when there is neither.
C19_PriorityChain ==
    best_datetime # None =>
        LET r == best_datetime[1]
        IN  /\ HasEmbedded(filepath) => r = Returns(Embedded(filepath))
            /\ (~HasEmbedded(filepath) /\ DatedMatchesAt(filepath) # {})
                  => r = Returns(FromName(filepath))
            /\ (~HasEmbedded(filepath) /\ DatedMatchesAt(filepath) = {}
                /\ filepath.stat_ok) => r = Returns(filepath.mtime)
            /\ (~r.raised /\ r.value = filepath.mtime)
                  => (~HasEmbedded(filepath) /\ DatedMatchesAt(filepath) = {})

\* C19 witness: a file with an embedded time and a file name that spells
\* another time has been resolved to the embedded time
C19_Witness ==
    /\ best_datetime # None
    /\ HasEmbedded(filepath)
    /\ DatedMatchesAt(filepath) # {}
    /\ FromName(filepath) # Embedded(filepath)
    /\ best_datetime[1] = Returns(Embedded(filepath))

\* the number of members with the place name x
NameCount(x) ==
    Cardinality({i \in 1..Len(group_photos) : group_photos[i].location_name = x})

\* the non-empty place names of the members
GroupNames ==
    {group_photos[i].location_name : i \in 1..Len(group_photos)} \ {NoneStr, ""}

\* C20 (as claimed): in every configuration get_dominant_location returns
\* the most frequent non-empty place name of the members when its count c
\* has c >= 1 and 10 * c >= 3 * n, and None otherwise.
C20_AnyConfiguration ==
    dominant_location # "uncalled" =>
        LET n == Len(group_photos)
            accepted == {x \in GroupNames :
                            /\ \A y \in GroupNames : NameCount(y) <= NameCount(x)
                            /\ NameCount(x) >= 1
                            /\ 10 * NameCount(x) >= 3 * n}
        IN  /\ accepted # {} => dominant_location \in accepted
            /\ accepted = {} => dominant_location = NoneStr

\* C20 (amended): with geocoding enabled get_dominant_location returns a
\* place name iff the most frequent non-empty name of the members has a count c with
\* c >= 1 and 10 * c >= 3 * n, n the number of members, and then a name of
\* that count; it returns None otherwise (and whenever geocoding is off);
\* n = 10 with c = 3 is accepted, n = 10 with c = 2 is rejected.
C20_DominantThreshold ==
    dominant_location # "uncalled" =>
        LET n == Len(group_photos)
            accepted == {x \in GroupNames :
                            /\ \A y \in GroupNames : NameCount(y) <= NameCount(x)
                            /\ NameCount(x) >= 1
                            /\ 10 * NameCount(x) >= 3 * n}
        IN  /\ ~use_geocoding => dominant_location = NoneStr
            /\ use_geocoding =>
                  /\ accepted # {} => dominant_location \in accepted
                  /\ accepted = {} => dominant_location = NoneStr
                  /\ (n = 10 /\ NameCount("Berlin") = 3 /\ NameCount("Potsdam") < 3)
                        => dominant_location = "Berlin"
                  /\ (n = 10 /\ NameCount("Berlin") = 2 /\ NameCount("Potsdam") = 0)
                        => dominant_location = NoneStr

\* C20 witness: of 10 members 3 are at "Berlin" and none elsewhere, and
\* "Berlin" has been returned
C20_Witness ==
    /\ use_geocoding
    /\ Len(group_photos) = 10
    /\ NameCount("Berlin") = 3
    /\ NameCount("Potsdam") = 0
    /\ dominant_location = "Berlin"

(* ============== claims: naming, order and span of events ============== *)
\* C21 (as claimed): a named event has the single-day name iff the minimum
\* and the maximum timestamp of its members lie on the same calendar day,
\* and the name 'Event_<start>_bis_<end>' otherwise.
C21_SameDayIffDayName ==
    cpc = "done" =>
        \A i \in NamedGroups(events) :
            LET ps == events[i].v
                same_day == DateOf(MinDatetime(ps)) = DateOf(MaxDatetime(ps))
            IN  /\ events[i].k.kind = "day" <=> same_day
                /\ events[i].k.kind = "event" <=> ~same_day

\* the orders in which the records of s can have been appended
RECURSIVE Orders(_)
Orders(s) ==
    IF s = <<>> THEN {<<>>}
    ELSE UNION {{<<s[i]>> \o rest :
                    rest \in Orders([j \in 1..(Len(s) - 1) |->
                                        IF j < i THEN s[j] ELSE s[j + 1]])} :
                i \in 1..Len(s)}

\* a returned mapping as group names with member sets
Mapping(evts) == {<<evts[i].k, SeqToSet(evts[i].v)>> : i \in 1..Len(evts)}

\* C26 (as claimed): the mapping returned for the records (group names and
\* the member set of each group) is the same for every order in which the
\* records were appended to self.photos.
C26_OrderIndependent ==
    cpc = "done" =>
        \A order \in Orders(photos) :
            Mapping(group_photos_into_events(order)) = Mapping(events)

\* C30: in every state of the pass the open cluster is the run of
\* sorted_photos that ends just before the record under test and begins at
\* its first member, and every member is at most event_max_days whole days
\* after the first; every named event of the mapping has at least
\* min_event_photos members and spans at most event_max_days whole days.
C30_SpanInvariant ==
    /\ cpc = "loop" =>
          LET n == Len(current_event_photos)
          IN  /\ n <= idx - 1
              /\ current_event_photos = SubSeq(sorted_photos, idx - n, idx - 1)
              /\ n > 0 => current_event_start = <<FirstMember.datetime>>
              /\ \A m \in 1..n :
                    /\ current_event_photos[m].datetime >= FirstMember.datetime
                    /\ WholeDays(current_event_photos[m], FirstMember)
                          <= event_max_days
    /\ \A i \in NamedGroups(events) :
          LET ps == events[i].v
          IN  /\ Len(ps) >= min_event_photos
              /\ TimedeltaDays(MaxDatetime(ps), MinDatetime(ps)) <= event_max_days

\* C30 witness: the open cluster holds three records, the last of them
\* exactly event_max_days whole days after the first
C30_Witness ==
    /\ cpc = "loop"
    /\ Len(current_event_photos) = 3
    /\ WholeDays(current_event_photos[3], FirstMember) = event_max_days

(* ==================== claims: direct execution ======================== *)
\* the planned moves: the members of the mapping in the order of the loops
Planned == Flatten(events)

\* the year of a timestamp
YearOf(t) == DateOf(t) \div DaysPerYear

\* the folder of a year under target_dir
YearFolder(t) == [kind |-> "year", start |-> YearOf(t), end |-> YearOf(t),
                  place |-> NoneStr]

\* C22 (as claimed): every member of the loose files is given a destination
\* in the folder of the year of its timestamp under target_dir, which is
\* neither an event folder nor target_dir itself.
C22_LooseFilesPerYear ==
    \A n \in 1..Len(exec_moves) :
        Planned[n].k = LooseKey =>
            /\ exec_moves[n][2][1] = YearFolder(Planned[n].photo.datetime)
            /\ exec_moves[n][2][1] # TargetFolder(LooseKey)

\* the execution is under way or over
Executing == run <= Len(Runs) /\ Runs[run] = "execute" /\ ppc = "loop"

ThisMove == exec_moves'[Len(exec_moves')]

\* the names name_1 .. name_k of a file name
SuffixedBelow(name, k) == {Suffixed(name, j) : j \in 1..k}

\* C24: the destination of a move does not exist just before the move; it
\* is folder/name when that is free, and otherwise folder/name_k for the
\* smallest k >= 1 that is free; the files of the target tree only grow, so
\* neither a file that was there nor one moved earlier is overwritten.
C24_CollisionResolution ==
    [][(Executing /\ gi <= Len(events)) =>
          LET photo == events[gi].v[mi]
              folder == TargetFolder(events[gi].k)
              name == FileName(photo)
          IN  /\ ThisMove[1] = photo.filepath
              /\ ThisMove[2] \notin target_files
              /\ ThisMove[2][1] = folder
              /\ <<folder, name>> \notin target_files => ThisMove[2][2] = name
              /\ <<folder, name>> \in target_files =>
                    \E k \in 1..(Cardinality(target_files) + 1) :
                        /\ ThisMove[2][2] = Suffixed(name, k)
                        /\ \A j \in 1..(k - 1) :
                              <<folder, Suffixed(name, j)>> \in target_files
              /\ target_files \subseteq target_files'
              /\ target_files' \subseteq target_files \cup {ThisMove[2]}]_vars

\* C24 witness: a.jpg and a_1.jpg were in the folder, two files a.jpg have
\* been moved there as a_2.jpg and a_3.jpg
C24_Witness ==
    \E m, n \in 1..Len(exec_moves) :
        /\ m < n
        /\ exec_moves[m][2][1] = exec_moves[n][2][1]
        /\ {<<exec_moves[m][2][1], nm>> : nm \in ExistingNames} \subseteq target_files
        /\ exec_moves[m][2][2] = <<"a_2", ".jpg">>
        /\ exec_moves[n][2][2] = <<"a_3", ".jpg">>
        /\ {exec_moves[m][2], exec_moves[n][2]} \subseteq target_files

(* ================= claims: content kept by the scan =================== *)
\* the readable qualifying files with the content of file i
SameContent(i) ==
    {j \in Tasks : all_files[j].readable /\ all_files[j].content = all_files[i].content}

\* C29 (as claimed): when the scan has ended, of every group of readable
\* qualifying files with identical content in which some file's timestamp,
\* GPS and size extraction succeeds, at least one file is a record, also
\* when the task that inserted the hash into the index failed afterwards.
C29_NoContentLost ==
    spc = "scanned" =>
        \A i \in Tasks :
            (all_files[i].readable /\ all_files[i].stat_ok) =>
                \E j \in SameContent(i) : IsRecord(j)

(* ======================= claims: write-back =========================== *)
\* the capture-time tags a file holds, whatever their values
CaptureTags(exif) == {k \in 1..Len(exif) : exif[k].tag \in ExifDateTags}

\* C25 (as claimed): after a call of get_best_datetime the tags of the file
\* differ from those before only if write-back is enabled and the file held
\* no capture-time tag at all; a file that held such a tag, also one whose
\* value does not parse, has its tags unchanged.
C25_NeverOverwrites ==
    best_datetime # None =>
        /\ exif_on_disk # filepath.exif =>
              (add_exif /\ CaptureTags(filepath.exif) = {})
        /\ CaptureTags(filepath.exif) # {} => exif_on_disk = filepath.exif

(* ===================== claims: filename patterns ====================== *)
\* the name is, from its first to its last character, of the convention
\* the pattern describes, and its digits spell a date and a time of day
FollowsConvention(filename, pattern) ==
    LET m == MatchFrom(pattern, filename, 1, <<>>)
    IN  /\ m.ok
        /\ m.end = Len(filename) + 1
        /\ Len(m.groups) = 6
        /\ ValidDatetime(m.groups[1], m.groups[2], m.groups[3],
                         m.groups[4], m.groups[5], m.groups[6])

Spelled(filename, pattern) ==
    LET g == MatchFrom(pattern, filename, 1, <<>>).groups
    IN  Datetime(g[1], g[2], g[3], g[4], g[5], g[6])

\* signal-YYYY-MM-DD-HHMMSS, Screenshot_YYYY-MM-DD-HH-MM-SS, IMG_YYYYMMDD_HHMMSS
TimeOfDayConventions == {default_patterns[8], default_patterns[9], default_patterns[6]}

\* YYYY-MM-DD and YYYYMMDD
DateOnlyConventions == {default_patterns[4], default_patterns[5]}

\* C28 (as claimed): for a name of one of the conventions that encode a time
\* of day the timestamp found in the file name is the date and the time of
\* day the name spells, and a name that is a date alone gets that date at
\* 12:00:00.
C28_TimeOfDayKept ==
    best_datetime # None =>
        /\ \A pattern \in TimeOfDayConventions :
              FollowsConvention(filepath.stem, pattern) =>
                  best_datetime[1] = <<Spelled(filepath.stem, pattern)>>
        /\ \A pattern \in DateOnlyConventions :
              LET m == MatchFrom(pattern, filepath.stem, 1, <<>>)
              IN  (/\ m.ok
                   /\ m.end = Len(filepath.stem) + 1
                   /\ ValidDatetime(m.groups[1], m.groups[2], m.groups[3], 12, 0, 0))
                      => best_datetime[1] = <<Datetime(m.groups[1], m.groups[2],
                                                       m.groups[3], 12, 0, 0)>>

(* ====================== claims: cache round trip ====================== *)
\* save_cache writes the document in this step
Dumped == saving /\ disk_cache' # disk_cache

\* C27: load_cache applied to the file save_cache has written returns True
\* and rehydrates the records that were saved, field by field (filepath,
\* datetime, gps_coords, location_name, file_hash, file_size, is_video) and
\* in the same order, the same duplicates and the same location cache, its
\* entries with the value None included.
C27_CacheRoundTrip ==
    [][Dumped =>
          LET r == load_cache(disk_cache')
          IN  /\ r.ret
              /\ r.photos = photos
              /\ r.duplicates = duplicates
              /\ r.location_cache = location_cache]_vars

\* C27 witness: a document has been written that holds a record with GPS
\* and a place name, a record without GPS, and a location cache entry with
\* the value None
C27_Witness ==
    /\ writes >= 1
    /\ disk_cache.kind = "json"
    /\ \E i, j \in 1..Len(disk_cache.photos) :
          /\ disk_cache.photos[i].gps_coords # None
          /\ Truthy(disk_cache.photos[i].location_name)
          /\ disk_cache.photos[j].gps_coords = None
          /\ disk_cache.photos[j].is_video
    /\ \E k \in 1..Len(disk_cache.location_cache) :
          disk_cache.location_cache[k].v = NoneStr

====
